---- MODULE Spec2Model ----
(***************************************************************************)
(* The simulated shell of src/3sim.py: the in-memory filesystem SimFS, the *)
(* command interpreter ShellSim and the text functions they use.           *)
(*                                                                         *)
(* A Python str is a sequence of one-character strings, so that every      *)
(* split, strip, join and comparison of the source is computed character   *)
(* by character.  The characters that occur are those of CodeOrder.        *)
(***************************************************************************)
EXTENDS Integers, Sequences, FiniteSets, TLC

VARIABLES dirs, files, cwd, line, ok, out, stages, sim, main, exam

vars == <<dirs, files, cwd, line, ok, out, stages, sim, main, exam>>

(***************************************************************************)
(* Bounds of the model.                                                    *)
(***************************************************************************)
\* the longest content an appending redirection may build
MaxContent == 12
\* the largest number of files held at once
MaxFiles == 3
\* the longest path string given to _norm by itself
MaxPath == 4

(***************************************************************************)
(* Python str and list operations.                                         *)
(***************************************************************************)
\* the characters of the model in code point order
CodeOrder == <<"\t", "\n", " ", "\"", "'", "-", ".", "/", "0", "1", "2", "3",
    "4", "5", "6", "7", "8", "9", ":", ">", "A", "B", "C", "D", "E", "F", "G",
    "H", "I", "J", "K", "L", "M", "N", "O", "P", "Q", "R", "S", "T", "U", "V",
    "W", "X", "Y", "Z", "\\", "_", "a", "b", "c", "d", "e", "f", "g", "h",
    "i", "j", "k", "l", "m", "n", "o", "p", "q", "r", "s", "t", "u", "v",
    "w", "x", "y", "z", "|">>

Ord(c) == CHOOSE i \in 1..Len(CodeOrder) : CodeOrder[i] = c

\* str.isspace of one character
Whitespace == {" ", "\t", "\n"}

StartsWith(s, pre) == Len(s) >= Len(pre) /\ SubSeq(s, 1, Len(pre)) = pre

EndsWith(s, suf) == Len(s) >= Len(suf) /\ SubSeq(s, Len(s) - Len(suf) + 1, Len(s)) = suf

\* s[n:]
Drop(s, n) == SubSeq(s, n + 1, Len(s))

\* s[:-1]
ButLast(s) == SubSeq(s, 1, Len(s) - 1)

RECURSIVE RStrip(_, _)
RStrip(s, cs) == IF s # <<>> /\ s[Len(s)] \in cs THEN RStrip(ButLast(s), cs) ELSE s

RECURSIVE LStrip(_, _)
LStrip(s, cs) == IF s # <<>> /\ s[1] \in cs THEN LStrip(Tail(s), cs) ELSE s

Strip(s, cs) == LStrip(RStrip(s, cs), cs)

\* str.find from position i on, counted from 1; 0 when sub does not occur
RECURSIVE FindFrom(_, _, _)
FindFrom(s, sub, i) ==
    IF i + Len(sub) - 1 > Len(s) THEN 0
    ELSE IF SubSeq(s, i, i + Len(sub) - 1) = sub THEN i
    ELSE FindFrom(s, sub, i + 1)

Find(s, sub) == FindFrom(s, sub, 1)

\* sub in s
Contains(s, sub) == Find(s, sub) # 0

\* s.split(sub, 1)
Split1(s, sub) ==
    LET cut(i) == IF i = 0 THEN <<s>> ELSE <<SubSeq(s, 1, i - 1), Drop(s, i + Len(sub) - 1)>>
    IN  cut(Find(s, sub))

\* s.split(c) for a one-character separator
RECURSIVE Split(_, _)
Split(s, c) ==
    LET cut(i) == IF i = 0 THEN <<s>> ELSE <<SubSeq(s, 1, i - 1)>> \o Split(Drop(s, i), c)
    IN  cut(Find(s, <<c>>))

\* sep.join(parts)
RECURSIVE Join(_, _)
Join(sep, parts) ==
    IF parts = <<>> THEN <<>>
    ELSE IF Len(parts) = 1 THEN parts[1]
    ELSE parts[1] \o sep \o Join(sep, Tail(parts))

\* a < b for two str
RECURSIVE StrLess(_, _)
StrLess(a, b) ==
    IF b = <<>> THEN FALSE
    ELSE IF a = <<>> THEN TRUE
    ELSE IF a[1] = b[1] THEN StrLess(Tail(a), Tail(b))
    ELSE Ord(a[1]) < Ord(b[1])

\* one step of sorted(): x put in its place in the sorted list s
RECURSIVE Insert(_, _)
Insert(x, s) ==
    IF s = <<>> THEN <<x>>
    ELSE IF StrLess(x, s[1]) THEN <<x>> \o s
    ELSE <<s[1]>> \o Insert(x, Tail(s))

\* sorted(list)
RECURSIVE Sorted(_)
Sorted(s) == IF s = <<>> THEN <<>> ELSE Insert(s[1], Sorted(Tail(s)))

\* sorted(an iterable without duplicates)
RECURSIVE SortedSet(_)
SortedSet(S) ==
    IF S = {} THEN <<>>
    ELSE LET x == CHOOSE y \in S : TRUE IN Insert(x, SortedSet(S \ {x}))

\* str(n) for n >= 0
RECURSIVE Str(_)
Str(n) ==
    LET digit == <<CodeOrder[Ord("0") + (n % 10)]>>
    IN  IF n < 10 THEN digit ELSE Str(n \div 10) \o digit

\* text.split(): the maximal runs of characters that are not whitespace
RECURSIVE SplitWords(_)
SplitWords(text) ==
    LET end(t) == IF \E i \in 1..Len(t) : t[i] \in Whitespace
                  THEN CHOOSE i \in 1..Len(t) :
                           t[i] \in Whitespace /\ \A j \in 1..(i - 1) : t[j] \notin Whitespace
                  ELSE Len(t) + 1
        words(t, e) == IF t = <<>> THEN <<>>
                       ELSE <<SubSeq(t, 1, e - 1)>> \o SplitWords(Drop(t, e - 1))
        from(t) == words(t, end(t))
    IN  from(LStrip(text, Whitespace))

\* text.splitlines(): the lines ended by "\n", and a last line that is not
SplitLines(text) ==
    LET lines(parts) == IF parts[Len(parts)] = <<>> THEN ButLast(parts) ELSE parts
    IN  lines(Split(text, "\n"))

(***************************************************************************)
(* SimFS: dirs maps a path to the list of its child directory names, files *)
(* maps a path to its content.  fs is the record of the three fields; a    *)
(* method returns the pair (ok, out) and the filesystem it leaves.         *)
(***************************************************************************)
Res(okv, outv, fsv) == [ok |-> okv, out |-> outv, fs |-> fsv]

\* dict with key k set to v
Put(f, k, v) == (k :> v) @@ f

\* del f[k]
Del(f, k) == [x \in (DOMAIN f) \ {k} |-> f[x]]

SeedDirs ==
    (<<"/">> :> <<<<"h","o","m","e">>, <<"e","t","c">>, <<"v","a","r">>, <<"t","m","p">>>>) @@
    (<<"/","h","o","m","e">> :> <<<<"c","a","n","n","o","n">>>>) @@
    (<<"/","h","o","m","e","/","c","a","n","n","o","n">> :> <<<<"n","o","t","e","s">>, <<"l","a","b","s">>>>) @@
    (<<"/","h","o","m","e","/","c","a","n","n","o","n","/","n","o","t","e","s">> :> <<>>) @@
    (<<"/","h","o","m","e","/","c","a","n","n","o","n","/","l","a","b","s">> :> <<>>) @@
    (<<"/","e","t","c">> :> <<>>) @@
    (<<"/","v","a","r">> :> <<<<"l","o","g">>>>) @@
    (<<"/","v","a","r","/","l","o","g">> :> <<>>) @@
    (<<"/","t","m","p">> :> <<>>)

SeedFiles ==
    (<<"/","h","o","m","e","/","c","a","n","n","o","n","/","n","o","t","e","s","/","r","e","a","d","m","e",".","t","x","t">> :> <<"W","e","l","c","o","m","e"," ","t","o"," ","L","P","I","C"," ","E","s","s","e","n","t","i","a","l","s"," ","T","o","p","i","c"," ","1",".","3","\n">>)

SeedCwd == <<"/","h","o","m","e","/","c","a","n","n","o","n">>

\* the loop of _norm with the test of "." left out
RECURSIVE NormParts_keeping_dot(_, _)
NormParts_keeping_dot(segs, parts) ==
    IF segs = <<>> THEN parts
    ELSE IF segs[1] = <<>> THEN NormParts_keeping_dot(Tail(segs), parts)
    ELSE IF segs[1] = <<".",".">>
        THEN NormParts_keeping_dot(Tail(segs), IF parts # <<>> THEN ButLast(parts) ELSE parts)
    ELSE NormParts_keeping_dot(Tail(segs), Append(parts, segs[1]))

\* the loop of _norm over the segments of the path
RECURSIVE NormParts(_, _)
NormParts(segs, parts) ==
    IF segs = <<>> THEN parts
    ELSE IF segs[1] = <<>> \/ segs[1] = <<".">> THEN NormParts(Tail(segs), parts)
    ELSE IF segs[1] = <<".",".">>
        THEN NormParts(Tail(segs), IF parts # <<>> THEN ButLast(parts) ELSE parts)
    ELSE NormParts(Tail(segs), Append(parts, segs[1]))

\* _norm that takes every path as relative to cwd
_norm_relative(c, path) ==
    LET joined(parts) == IF parts # <<>> THEN <<"/">> \o Join(<<"/">>, parts) ELSE <<"/">>
        resolved(abs) == joined(NormParts(Split(abs, "/"), <<>>))
    IN  resolved(IF path = <<".">> THEN c
                 ELSE IF StartsWith(path, <<".","/">>)
                     THEN RStrip(c, {"/"}) \o <<"/">> \o Drop(path, 2)
                 ELSE RStrip(c, {"/"}) \o <<"/">> \o path)

\* SimFS._norm with self.cwd = c
_norm(c, path) ==
    LET joined(parts) == IF parts # <<>> THEN <<"/">> \o Join(<<"/">>, parts) ELSE <<"/">>
        resolved(abs) == joined(NormParts(Split(abs, "/"), <<>>))
    IN  resolved(IF StartsWith(path, <<"/">>) THEN path
                 ELSE IF path = <<".">> THEN c
                 ELSE IF StartsWith(path, <<".","/">>)
                     THEN RStrip(c, {"/"}) \o <<"/">> \o Drop(path, 2)
                 ELSE RStrip(c, {"/"}) \o <<"/">> \o path)

\* the parent expression of mkdir, touch, cp, mv and write_file
ParentDir(p) ==
    LET of(q) == IF Contains(q, <<"/">>)
                 THEN <<"/">> \o Join(<<"/">>, ButLast(Split(q, "/")))
                 ELSE <<"/">>
    IN  of(Strip(p, {"/"}))

pwd(fs) == fs.cwd

\* path is <<>> for None and <<p>> for the str p
ls(fs, path) ==
    LET local_files(prefix) == SortedSet({Drop(fp, Len(prefix)) : fp \in
            {f \in DOMAIN fs.files :
                StartsWith(f, prefix) /\ ~Contains(Drop(f, Len(prefix)), <<"/">>)}})
        at(p) == IF p \in DOMAIN fs.dirs
                 THEN Res(TRUE, Join(<<" "," ">>,
                          Sorted(fs.dirs[p] \o local_files(RStrip(p, {"/"}) \o <<"/">>))), fs)
                 ELSE Res(FALSE, <<"l","s",":"," ","c","a","n","n","o","t"," ","a","c","c","e","s","s"," ","'">>
                          \o (IF path = <<>> THEN <<"N","o","n","e">> ELSE path[1])
                          \o <<"'",":"," ","N","o"," ","s","u","c","h"," ","d","i","r","e","c","t","o","r","y">>, fs)
    IN  at(IF path # <<>> /\ path[1] # <<>> THEN _norm(fs.cwd, path[1]) ELSE fs.cwd)

\* cd with the test of the directory left out
cd_unchecked(fs, path) ==
    LET at(p) == Res(TRUE, <<>>, [fs EXCEPT !.cwd = p])
    IN  at(_norm(fs.cwd, path))

cd(fs, path) ==
    LET at(p) == IF p \in DOMAIN fs.dirs
                 THEN Res(TRUE, <<>>, [fs EXCEPT !.cwd = p])
                 ELSE Res(FALSE, <<"c","d",":"," ","n","o"," ","s","u","c","h"," ","f","i","l","e"," ","o","r"," ","d","i","r","e","c","t","o","r","y",":"," ">> \o path, fs)
    IN  at(_norm(fs.cwd, path))

\* mkdir that succeeds on a directory that exists
mkdir_idempotent(fs, name) ==
    LET base(parts) == parts[Len(parts)]
        in(p, parent) ==
            IF p \in DOMAIN fs.dirs THEN Res(TRUE, <<>>, fs)
            ELSE IF p \in DOMAIN fs.files
            THEN Res(FALSE, <<"m","k","d","i","r",":"," ","c","a","n","n","o","t"," ","c","r","e","a","t","e"," ","d","i","r","e","c","t","o","r","y"," ","'">> \o name
                                \o <<"'",":"," ","F","i","l","e"," ","e","x","i","s","t","s">>, fs)
            ELSE IF parent \notin DOMAIN fs.dirs
            THEN Res(FALSE, <<"m","k","d","i","r",":"," ","c","a","n","n","o","t"," ","c","r","e","a","t","e"," ","d","i","r","e","c","t","o","r","y"," ","'">> \o name
                                \o <<"'",":"," ","N","o"," ","s","u","c","h"," ","f","i","l","e"," ","o","r"," ","d","i","r","e","c","t","o","r","y">>, fs)
            ELSE Res(TRUE, <<>>, [fs EXCEPT !.dirs =
                     Put([fs.dirs EXCEPT ![parent] = Append(@, base(Split(p, "/")))], p, <<>>)])
        at(p) == in(p, ParentDir(p))
    IN  at(_norm(fs.cwd, name))

\* mkdir that makes the new directory the current one
mkdir_entering(fs, name) ==
    LET base(parts) == parts[Len(parts)]
        in(p, parent) ==
            IF p \in DOMAIN fs.dirs \/ p \in DOMAIN fs.files
            THEN Res(FALSE, <<"m","k","d","i","r",":"," ","c","a","n","n","o","t"," ","c","r","e","a","t","e"," ","d","i","r","e","c","t","o","r","y"," ","'">> \o name
                                \o <<"'",":"," ","F","i","l","e"," ","e","x","i","s","t","s">>, fs)
            ELSE IF parent \notin DOMAIN fs.dirs
            THEN Res(FALSE, <<"m","k","d","i","r",":"," ","c","a","n","n","o","t"," ","c","r","e","a","t","e"," ","d","i","r","e","c","t","o","r","y"," ","'">> \o name
                                \o <<"'",":"," ","N","o"," ","s","u","c","h"," ","f","i","l","e"," ","o","r"," ","d","i","r","e","c","t","o","r","y">>, fs)
            ELSE Res(TRUE, <<>>, [fs EXCEPT !.cwd = p, !.dirs =
                     Put([fs.dirs EXCEPT ![parent] = Append(@, base(Split(p, "/")))], p, <<>>)])
        at(p) == in(p, ParentDir(p))
    IN  at(_norm(fs.cwd, name))

\* mkdir with the append to the parent's list left out
mkdir_unlisted(fs, name) ==
    LET in(p, parent) ==
            IF p \in DOMAIN fs.dirs \/ p \in DOMAIN fs.files
            THEN Res(FALSE, <<"m","k","d","i","r",":"," ","c","a","n","n","o","t"," ","c","r","e","a","t","e"," ","d","i","r","e","c","t","o","r","y"," ","'">> \o name
                                \o <<"'",":"," ","F","i","l","e"," ","e","x","i","s","t","s">>, fs)
            ELSE IF parent \notin DOMAIN fs.dirs
            THEN Res(FALSE, <<"m","k","d","i","r",":"," ","c","a","n","n","o","t"," ","c","r","e","a","t","e"," ","d","i","r","e","c","t","o","r","y"," ","'">> \o name
                                \o <<"'",":"," ","N","o"," ","s","u","c","h"," ","f","i","l","e"," ","o","r"," ","d","i","r","e","c","t","o","r","y">>, fs)
            ELSE Res(TRUE, <<>>, [fs EXCEPT !.dirs = Put(fs.dirs, p, <<>>)])
        at(p) == in(p, ParentDir(p))
    IN  at(_norm(fs.cwd, name))

mkdir(fs, name) ==
    LET base(parts) == parts[Len(parts)]
        in(p, parent) ==
            IF p \in DOMAIN fs.dirs \/ p \in DOMAIN fs.files
            THEN Res(FALSE, <<"m","k","d","i","r",":"," ","c","a","n","n","o","t"," ","c","r","e","a","t","e"," ","d","i","r","e","c","t","o","r","y"," ","'">> \o name
                                \o <<"'",":"," ","F","i","l","e"," ","e","x","i","s","t","s">>, fs)
            ELSE IF parent \notin DOMAIN fs.dirs
            THEN Res(FALSE, <<"m","k","d","i","r",":"," ","c","a","n","n","o","t"," ","c","r","e","a","t","e"," ","d","i","r","e","c","t","o","r","y"," ","'">> \o name
                                \o <<"'",":"," ","N","o"," ","s","u","c","h"," ","f","i","l","e"," ","o","r"," ","d","i","r","e","c","t","o","r","y">>, fs)
            ELSE Res(TRUE, <<>>, [fs EXCEPT !.dirs =
                     Put([fs.dirs EXCEPT ![parent] = Append(@, base(Split(p, "/")))], p, <<>>)])
        at(p) == in(p, ParentDir(p))
    IN  at(_norm(fs.cwd, name))

\* touch with the test of the parent left out
touch_unchecked(fs, name) ==
    LET at(p) == IF p \notin DOMAIN fs.files
                 THEN Res(TRUE, <<>>, [fs EXCEPT !.files = Put(fs.files, p, <<>>)])
                 ELSE Res(TRUE, <<>>, fs)
    IN  at(_norm(fs.cwd, name))

\* touch that empties the file it is given
touch_truncating(fs, name) ==
    LET in(p, parent) ==
            IF parent \notin DOMAIN fs.dirs
            THEN Res(FALSE, <<"t","o","u","c","h",":"," ","c","a","n","n","o","t"," ","t","o","u","c","h"," ","'">> \o name \o <<"'",":"," ","N","o"," ","s","u","c","h"," ","d","i","r","e","c","t","o","r","y">>, fs)
            ELSE Res(TRUE, <<>>, [fs EXCEPT !.files = Put(fs.files, p, <<>>)])
        at(p) == in(p, ParentDir(p))
    IN  at(_norm(fs.cwd, name))

touch(fs, name) ==
    LET in(p, parent) ==
            IF parent \notin DOMAIN fs.dirs
            THEN Res(FALSE, <<"t","o","u","c","h",":"," ","c","a","n","n","o","t"," ","t","o","u","c","h"," ","'">> \o name \o <<"'",":"," ","N","o"," ","s","u","c","h"," ","d","i","r","e","c","t","o","r","y">>, fs)
            ELSE IF p \notin DOMAIN fs.files
            THEN Res(TRUE, <<>>, [fs EXCEPT !.files = Put(fs.files, p, <<>>)])
            ELSE Res(TRUE, <<>>, fs)
        at(p) == in(p, ParentDir(p))
    IN  at(_norm(fs.cwd, name))

cat(fs, name) ==
    LET at(p) == IF p \in DOMAIN fs.files
                 THEN Res(TRUE, fs.files[p], fs)
                 ELSE Res(FALSE, <<"c","a","t",":"," ">> \o name \o <<":"," ","N","o"," ","s","u","c","h"," ","f","i","l","e">>, fs)
    IN  at(_norm(fs.cwd, name))

rm(fs, name) ==
    LET at(p) == IF p \in DOMAIN fs.files
                 THEN Res(TRUE, <<>>, [fs EXCEPT !.files = Del(fs.files, p)])
                 ELSE IF p \in DOMAIN fs.dirs
                 THEN Res(FALSE, <<"r","m",":"," ","c","a","n","n","o","t"," ","r","e","m","o","v","e"," ","'">> \o name \o <<"'",":"," ","I","s"," ","a"," ","d","i","r","e","c","t","o","r","y">>, fs)
                 ELSE Res(FALSE, <<"r","m",":"," ","c","a","n","n","o","t"," ","r","e","m","o","v","e"," ","'">> \o name \o <<"'",":"," ","N","o"," ","s","u","c","h"," ","f","i","l","e">>, fs)
    IN  at(_norm(fs.cwd, name))

\* cp that takes the source away
cp_moving(fs, src, dst) ==
    LET in(s, d, parent) ==
            IF s \notin DOMAIN fs.files
            THEN Res(FALSE, <<"c","p",":"," ","c","a","n","n","o","t"," ","s","t","a","t"," ","'">> \o src \o <<"'",":"," ","N","o"," ","s","u","c","h"," ","f","i","l","e">>, fs)
            ELSE IF parent \notin DOMAIN fs.dirs
            THEN Res(FALSE, <<"c","p",":"," ","c","a","n","n","o","t"," ","c","r","e","a","t","e"," ","r","e","g","u","l","a","r"," ","f","i","l","e"," ","'">> \o dst
                                \o <<"'",":"," ","N","o"," ","s","u","c","h"," ","d","i","r","e","c","t","o","r","y">>, fs)
            ELSE Res(TRUE, <<>>, [fs EXCEPT !.files = Del(Put(fs.files, d, fs.files[s]), s)])
        at(s, d) == in(s, d, ParentDir(d))
    IN  at(_norm(fs.cwd, src), _norm(fs.cwd, dst))

cp(fs, src, dst) ==
    LET in(s, d, parent) ==
            IF s \notin DOMAIN fs.files
            THEN Res(FALSE, <<"c","p",":"," ","c","a","n","n","o","t"," ","s","t","a","t"," ","'">> \o src \o <<"'",":"," ","N","o"," ","s","u","c","h"," ","f","i","l","e">>, fs)
            ELSE IF parent \notin DOMAIN fs.dirs
            THEN Res(FALSE, <<"c","p",":"," ","c","a","n","n","o","t"," ","c","r","e","a","t","e"," ","r","e","g","u","l","a","r"," ","f","i","l","e"," ","'">> \o dst
                                \o <<"'",":"," ","N","o"," ","s","u","c","h"," ","d","i","r","e","c","t","o","r","y">>, fs)
            ELSE Res(TRUE, <<>>, [fs EXCEPT !.files = Put(fs.files, d, fs.files[s])])
        at(s, d) == in(s, d, ParentDir(d))
    IN  at(_norm(fs.cwd, src), _norm(fs.cwd, dst))

\* mv that takes the source away before it tests the destination's parent
mv_before_check(fs, src, dst) ==
    LET in(s, d, parent) ==
            IF s \notin DOMAIN fs.files
            THEN Res(FALSE, <<"m","v",":"," ","c","a","n","n","o","t"," ","s","t","a","t"," ","'">> \o src \o <<"'",":"," ","N","o"," ","s","u","c","h"," ","f","i","l","e">>, fs)
            ELSE IF parent \notin DOMAIN fs.dirs
            THEN Res(FALSE, <<"m","v",":"," ","c","a","n","n","o","t"," ","m","o","v","e"," ","t","o"," ","'">> \o dst \o <<"'",":"," ","N","o"," ","s","u","c","h"," ","d","i","r","e","c","t","o","r","y">>,
                     [fs EXCEPT !.files = Del(fs.files, s)])
            ELSE Res(TRUE, <<>>, [fs EXCEPT !.files = Del(Put(fs.files, d, fs.files[s]), s)])
        at(s, d) == in(s, d, ParentDir(d))
    IN  at(_norm(fs.cwd, src), _norm(fs.cwd, dst))

mv(fs, src, dst) ==
    LET in(s, d, parent) ==
            IF s \notin DOMAIN fs.files
            THEN Res(FALSE, <<"m","v",":"," ","c","a","n","n","o","t"," ","s","t","a","t"," ","'">> \o src \o <<"'",":"," ","N","o"," ","s","u","c","h"," ","f","i","l","e">>, fs)
            ELSE IF parent \notin DOMAIN fs.dirs
            THEN Res(FALSE, <<"m","v",":"," ","c","a","n","n","o","t"," ","m","o","v","e"," ","t","o"," ","'">> \o dst \o <<"'",":"," ","N","o"," ","s","u","c","h"," ","d","i","r","e","c","t","o","r","y">>, fs)
            ELSE Res(TRUE, <<>>, [fs EXCEPT !.files = Del(Put(fs.files, d, fs.files[s]), s)])
        at(s, d) == in(s, d, ParentDir(d))
    IN  at(_norm(fs.cwd, src), _norm(fs.cwd, dst))

\* write_file that appends whatever the flag
write_file_appending(fs, path, content, append) ==
    LET in(p, parent) ==
            IF parent \notin DOMAIN fs.dirs
            THEN Res(FALSE, <<"r","e","d","i","r","e","c","t",":"," ","c","a","n","n","o","t"," ","w","r","i","t","e"," ","'">> \o path
                                \o <<"'",":"," ","N","o"," ","s","u","c","h"," ","d","i","r","e","c","t","o","r","y">>, fs)
            ELSE Res(TRUE, <<>>, [fs EXCEPT !.files =
                     Put(fs.files, p, (IF p \in DOMAIN fs.files THEN fs.files[p] ELSE <<>>)
                                          \o content)])
        at(p) == in(p, ParentDir(p))
    IN  at(_norm(fs.cwd, path))

write_file(fs, path, content, append) ==
    LET in(p, parent) ==
            IF parent \notin DOMAIN fs.dirs
            THEN Res(FALSE, <<"r","e","d","i","r","e","c","t",":"," ","c","a","n","n","o","t"," ","w","r","i","t","e"," ","'">> \o path
                                \o <<"'",":"," ","N","o"," ","s","u","c","h"," ","d","i","r","e","c","t","o","r","y">>, fs)
            ELSE IF append
            THEN Res(TRUE, <<>>, [fs EXCEPT !.files =
                     Put(fs.files, p, (IF p \in DOMAIN fs.files THEN fs.files[p] ELSE <<>>)
                                          \o content)])
            ELSE Res(TRUE, <<>>, [fs EXCEPT !.files = Put(fs.files, p, content)])
        at(p) == in(p, ParentDir(p))
    IN  at(_norm(fs.cwd, path))

(***************************************************************************)
(* shlex.split(s) of the standard library, in its POSIX mode with          *)
(* whitespace_split: state is " " between tokens, "a" inside a word, a     *)
(* quote inside a quoted part and the backslash after an escape.  The      *)
(* result is [ok, argv]; ok is FALSE where shlex raises ValueError.        *)
(***************************************************************************)
Quotes == {"'", "\""}

RECURSIVE Lex(_, _, _, _, _, _, _)
Lex(s, i, state, escapedstate, token, quoted, argv) ==
    LET c == s[i]
        emit == IF token # <<>> \/ quoted THEN Append(argv, token) ELSE argv
    IN  IF i > Len(s)
        THEN IF state = " " THEN [ok |-> TRUE, argv |-> argv]
             ELSE IF state = "a" THEN [ok |-> TRUE, argv |-> emit]
             ELSE [ok |-> FALSE, argv |-> <<>>]
        ELSE IF state = " "
        THEN IF c \in Whitespace THEN Lex(s, i + 1, " ", escapedstate, token, quoted, argv)
             ELSE IF c = "\\" THEN Lex(s, i + 1, c, "a", token, quoted, argv)
             ELSE IF c \in Quotes THEN Lex(s, i + 1, c, escapedstate, token, quoted, argv)
             ELSE Lex(s, i + 1, "a", escapedstate, <<c>>, quoted, argv)
        ELSE IF state \in Quotes
        THEN IF c = state THEN Lex(s, i + 1, "a", escapedstate, token, TRUE, argv)
             ELSE IF c = "\\" /\ state = "\"" THEN Lex(s, i + 1, c, state, token, TRUE, argv)
             ELSE Lex(s, i + 1, state, escapedstate, Append(token, c), TRUE, argv)
        ELSE IF state = "\\"
        THEN IF escapedstate \in Quotes /\ c # state /\ c # escapedstate
             THEN Lex(s, i + 1, escapedstate, escapedstate, token \o <<state, c>>, quoted, argv)
             ELSE Lex(s, i + 1, escapedstate, escapedstate, Append(token, c), quoted, argv)
        ELSE IF c \in Whitespace THEN Lex(s, i + 1, " ", escapedstate, <<>>, FALSE, emit)
             ELSE IF c \in Quotes THEN Lex(s, i + 1, c, escapedstate, token, quoted, argv)
             ELSE IF c = "\\" THEN Lex(s, i + 1, c, "a", token, quoted, argv)
             ELSE Lex(s, i + 1, "a", escapedstate, Append(token, c), quoted, argv)

\* shlex.split that returns the tokens read so far where shlex raises
shlex_split_lenient(s) ==
    [ok |-> TRUE, argv |-> Lex(s, 1, " ", " ", <<>>, FALSE, <<>>).argv]

shlex_split(s) == Lex(s, 1, " ", " ", <<>>, FALSE, <<>>)

(***************************************************************************)
(* The command engine.                                                     *)
(***************************************************************************)
\* wc_count with the tests of "-w" and "-c" exchanged
wc_count_swapped(text, mode) ==
    IF mode = <<"-","c">> THEN Str(Len(SplitWords(text)))
    ELSE IF mode = <<"-","w">> THEN Str(Len(text))
    ELSE Str(Len(SplitLines(text)))

wc_count(text, mode) ==
    IF mode = <<"-","w">> THEN Str(Len(SplitWords(text)))
    ELSE IF mode = <<"-","c">> THEN Str(Len(text))
    ELSE Str(Len(SplitLines(text)))

\* s + ("\n" if not s.endswith("\n") else "")
WithNewline(s) == s \o (IF ~EndsWith(s, <<"\n">>) THEN <<"\n">> ELSE <<>>)

\* redirect_path is <<>> for None and <<p>> for the str p
_finalize(fs, ok_, outv, redirect_path, append) ==
    LET written(w) == IF ~w.ok THEN Res(FALSE, WithNewline(w.out), w.fs)
                      ELSE Res(TRUE, <<>>, w.fs)
    IN  IF ~ok_ THEN Res(FALSE, outv, fs)
        ELSE IF redirect_path # <<>> /\ redirect_path[1] # <<>>
        THEN written(write_file(fs, redirect_path[1], outv, append))
        ELSE Res(TRUE, outv, fs)

\* return ok_, out_ + ("\n" if out_ else "")
Returned(r) == Res(r.ok, r.out \o (IF r.out # <<>> THEN <<"\n">> ELSE <<>>), r.fs)

\* the first lines of _run_simple: the redirection taken off the stage
Redirection(ln) ==
    LET cut(parts, app) == [line |-> Strip(parts[1], Whitespace),
                            redirect_path |-> <<Strip(parts[2], Whitespace)>>, append |-> app]
    IN  IF Contains(ln, <<">",">">>) THEN cut(Split1(ln, <<">",">">>), TRUE)
        ELSE IF Contains(ln, <<">">>) THEN cut(Split1(ln, <<">">>), FALSE)
        ELSE [line |-> ln, redirect_path |-> <<>>, append |-> FALSE]

\* the wc branch reading the file argument before the piped input
RunWc_file_first(fs, args, piped_in, redirect_path, append) ==
    LET counted(text, mode) ==
            _finalize(fs, TRUE, wc_count(text, mode) \o <<"\n">>, redirect_path, append)
        read(r, mode) == IF ~r.ok THEN Res(FALSE, WithNewline(r.out), r.fs)
                         ELSE counted(r.out, mode)
        in(mode) == IF Len(args) >= 2 THEN read(cat(fs, args[2]), mode)
                    ELSE IF piped_in # <<>> THEN counted(piped_in[1], mode)
                    ELSE Res(FALSE, <<"w","c",":"," ","e","x","p","e","c","t","e","d"," ","p","i","p","e","d"," ","i","n","p","u","t"," ","o","r"," ","f","i","l","e","\n">>, fs)
    IN  in(IF args # <<>> /\ StartsWith(args[1], <<"-">>) THEN args[1] ELSE <<>>)

\* the wc branch of _run_simple
RunWc(fs, args, piped_in, redirect_path, append) ==
    LET counted(text, mode) ==
            _finalize(fs, TRUE, wc_count(text, mode) \o <<"\n">>, redirect_path, append)
        read(r, mode) == IF ~r.ok THEN Res(FALSE, WithNewline(r.out), r.fs)
                         ELSE counted(r.out, mode)
        in(mode) == IF piped_in # <<>> THEN counted(piped_in[1], mode)
                    ELSE IF Len(args) >= 2 THEN read(cat(fs, args[2]), mode)
                    ELSE Res(FALSE, <<"w","c",":"," ","e","x","p","e","c","t","e","d"," ","p","i","p","e","d"," ","i","n","p","u","t"," ","o","r"," ","f","i","l","e","\n">>, fs)
    IN  in(IF args # <<>> /\ StartsWith(args[1], <<"-">>) THEN args[1] ELSE <<>>)

\* the dispatch of _run_simple on cmd; piped_in is <<>> for None
RunCommand(fs, cmd, args, piped_in, redirect_path, append) ==
    LET final(ok_, outv) == _finalize(fs, ok_, outv, redirect_path, append)
        listed(r) == final(r.ok, r.out \o (IF r.out # <<>> /\ r.ok THEN <<"\n">> ELSE <<>>))
        read(r) == final(r.ok, r.out \o (IF EndsWith(r.out, <<"\n">>) \/ ~r.ok THEN <<>>
                                         ELSE <<"\n">>))
    IN  IF cmd = <<"p","w","d">> THEN final(TRUE, pwd(fs) \o <<"\n">>)
        ELSE IF cmd = <<"l","s">> THEN listed(ls(fs, IF args # <<>> THEN <<args[1]>> ELSE <<>>))
        ELSE IF cmd = <<"c","d">>
        THEN IF args = <<>> THEN Res(FALSE, <<"c","d",":"," ","m","i","s","s","i","n","g"," ","o","p","e","r","a","n","d","\n">>, fs)
             ELSE Returned(cd(fs, args[1]))
        ELSE IF cmd = <<"m","k","d","i","r">>
        THEN IF args = <<>> THEN Res(FALSE, <<"m","k","d","i","r",":"," ","m","i","s","s","i","n","g"," ","o","p","e","r","a","n","d","\n">>, fs)
             ELSE Returned(mkdir(fs, args[1]))
        ELSE IF cmd = <<"t","o","u","c","h">>
        THEN IF args = <<>> THEN Res(FALSE, <<"t","o","u","c","h",":"," ","m","i","s","s","i","n","g"," ","f","i","l","e"," ","o","p","e","r","a","n","d","\n">>, fs)
             ELSE Returned(touch(fs, args[1]))
        ELSE IF cmd = <<"c","a","t">>
        THEN IF args = <<>> THEN Res(FALSE, <<"c","a","t",":"," ","m","i","s","s","i","n","g"," ","f","i","l","e"," ","o","p","e","r","a","n","d","\n">>, fs)
             ELSE read(cat(fs, args[1]))
        ELSE IF cmd = <<"r","m">>
        THEN IF args = <<>> THEN Res(FALSE, <<"r","m",":"," ","m","i","s","s","i","n","g"," ","o","p","e","r","a","n","d","\n">>, fs)
             ELSE Returned(rm(fs, args[1]))
        ELSE IF cmd = <<"c","p">>
        THEN IF Len(args) # 2 THEN Res(FALSE, <<"c","p",":"," ","u","s","a","g","e",":"," ","c","p"," ","S","R","C"," ","D","S","T","\n">>, fs)
             ELSE Returned(cp(fs, args[1], args[2]))
        ELSE IF cmd = <<"m","v">>
        THEN IF Len(args) # 2 THEN Res(FALSE, <<"m","v",":"," ","u","s","a","g","e",":"," ","m","v"," ","S","R","C"," ","D","S","T","\n">>, fs)
             ELSE Returned(mv(fs, args[1], args[2]))
        ELSE IF cmd = <<"e","c","h","o">> THEN final(TRUE, Join(<<" ">>, args) \o <<"\n">>)
        ELSE IF cmd = <<"w","c">> THEN RunWc(fs, args, piped_in, redirect_path, append)
        ELSE Res(FALSE, cmd \o <<":"," ","c","o","m","m","a","n","d"," ","n","o","t"," ","f","o","u","n","d","\n">>, fs)

\* the first lines of _run_simple: the stage's text read into its redirection and
\* its argv; ok is FALSE for the ValueError of shlex.split
ParseStage(ln) ==
    LET read(rd, lexed) == [ok |-> lexed.ok, argv |-> lexed.argv,
                            redirect_path |-> rd.redirect_path, append |-> rd.append]
        lex(rd) == read(rd, shlex_split(rd.line))
    IN  lex(Redirection(ln))

\* the first lines of run: the line stripped and cut at its first "|"
ParseLine(ln0) ==
    LET both(halves)   == <<ParseStage(Strip(halves[1], Whitespace)),
                            ParseStage(Strip(halves[2], Whitespace))>>
        read(ln) == IF ln = <<>> THEN <<>>
                    ELSE IF Contains(ln, <<"|">>) THEN both(Split1(ln, <<"|">>))
                    ELSE <<ParseStage(ln)>>
    IN  read(Strip(ln0, Whitespace))

\* _run_simple on the stage st as ParseStage read it
_run_simple(fs, st, piped_in) ==
    IF ~st.ok THEN Res(FALSE, <<"P","a","r","s","e"," ","e","r","r","o","r",":"," ","u","n","m","a","t","c","h","e","d"," ","q","u","o","t","e","s">>, fs)
    ELSE IF st.argv = <<>> THEN Res(TRUE, <<>>, fs)
    ELSE RunCommand(fs, st.argv[1], Tail(st.argv), piped_in, st.redirect_path, st.append)

\* what run returns after n calls of _run_simple, the last of which returned r
Ran(r, n) == [ok |-> r.ok, out |-> r.out, fs |-> r.fs, stages |-> n]

\* run that runs the second stage whatever the first returned
run_both(fs, pl) ==
    LET second(r1, r2) == IF ~r1.ok THEN Ran(Res(FALSE, r1.out, r2.fs), 2) ELSE Ran(r2, 2)
        piped(r1) == second(r1, _run_simple(r1.fs, pl[2], <<r1.out>>))
    IN  IF pl = <<>> THEN Ran(Res(TRUE, <<>>, fs), 0)
        ELSE IF Len(pl) = 2 THEN piped(_run_simple(fs, pl[1], <<>>))
        ELSE Ran(_run_simple(fs, pl[1], <<>>), 1)

\* ShellSim.run on the line as ParseLine read it: no stage for an empty line, two
\* for a line with a pipe
run(fs, pl) ==
    LET piped(r1) == IF ~r1.ok THEN Ran(Res(FALSE, r1.out, r1.fs), 1)
                     ELSE Ran(_run_simple(r1.fs, pl[2], <<r1.out>>), 2)
    IN  IF pl = <<>> THEN Ran(Res(TRUE, <<>>, fs), 0)
        ELSE IF Len(pl) = 2 THEN piped(_run_simple(fs, pl[1], <<>>))
        ELSE Ran(_run_simple(fs, pl[1], <<>>), 1)

(***************************************************************************)
(* The command lines given to execute (ShellSim.run).                      *)
(***************************************************************************)
\* the line "c > t" or "c >> t"
Redir(c, op, t) == c \o <<" ">> \o op \o <<" ">> \o t

\* the line "a | b"
Piped(a, b) == a \o <<" ","|"," ">> \o b

LsLines == {<<"l","s">>, <<"l","s"," ","/">>, <<"l","s"," ","/","n","o","p","e">>}

CdLines == {<<"c","d"," ",".",".","/",".",".","/","t","m","p">>, <<"c","d"," ","/","h","o","m","e","/","c","a","n","n","o","n">>, <<"c","d"," ","/","n","o","p","e">>}

MkdirLines == {<<"m","k","d","i","r"," ","d">>, <<"m","k","d","i","r"," ","/","n","o","p","e","/","d">>}

TouchLines == {<<"t","o","u","c","h"," ","x">>, <<"t","o","u","c","h"," ","/","t","m","p">>, <<"t","o","u","c","h"," ","/","n","o","p","e","/","x">>}

CatLines == {<<"c","a","t"," ","x">>}

RmLines == {<<"r","m"," ","x">>, <<"r","m"," ","/","t","m","p">>}

CpLines == {<<"c","p"," ","x"," ","/","t","m","p","/","x">>, <<"c","p"," ","/","n","o","p","e"," ","x">>, <<"c","p"," ","x"," ","/","n","o","p","e","/","y">>, <<"c","p"," ","x"," ","x">>,
            <<"c","p"," ","/","n","o","p","e"," ","/","n","o","p","e","/","y">>}

MvLines == {<<"m","v"," ","x"," ","/","t","m","p","/","x">>, <<"m","v"," ","x"," ",".","/","x">>, <<"m","v"," ","x"," ","/","n","o","p","e","/","x">>, <<"m","v"," ","/","n","o","p","e"," ","x">>}

EchoLines == {<<"e","c","h","o"," ","h","i">>}

WcLines == {<<"w","c"," ","-","w"," ","x">>, <<"w","c"," ","-","c"," ","x">>, <<"w","c"," ","x">>}

\* the pairs (command, target) of the lines with a redirection
Redirects == {<<<<"e","c","h","o"," ","h","i">>, <<"x">>>>, <<<<"c","a","t"," ","/","n","o","p","e">>, <<"x">>>>, <<<<"e","c","h","o"," ","h","i">>, <<"/","n","o","p","e","/","x">>>>,
              <<<<"t","o","u","c","h"," ","x">>, <<"y">>>>, <<<<"e","c","h","o"," ","h","i">>, <<"/">>>>}

Appends == {<<<<"e","c","h","o"," ","h","i">>, <<"x">>>>}

RedirectLines == {Redir(ct[1], <<">">>, ct[2]) : ct \in Redirects}

AppendLines == {Redir(ct[1], <<">",">">>, ct[2]) : ct \in Appends}

PipeLines == {<<"c","a","t"," ","x"," ","|"," ","w","c"," ","-","w">>, <<"c","a","t"," ","/","n","o","p","e"," ","|"," ","r","m"," ","x">>}

\* the lines about redirection: every command that prints, to a target whose
\* parent is a directory and to one whose parent is not
Producers == {<<"e","c","h","o"," ","h","e","l","l","o">>, <<"e","c","h","o"," ","a","g","a","i","n">>, <<"p","w","d">>, <<"l","s">>, <<"c","a","t"," ","/","t","m","p","/","x",".","t","x","t">>,
              <<"w","c"," ","-","w"," ","/","t","m","p","/","x",".","t","x","t">>}

Targets == {<<"/","t","m","p","/","x",".","t","x","t">>, <<"/","n","o","p","e","/","x">>}

RedirSetupLines == {<<"c","d"," ","/","t","m","p">>, <<"r","m"," ","/","t","m","p","/","x",".","t","x","t">>}

OverwriteLines == {Redir(c, <<">">>, t) : c \in Producers, t \in Targets}

AppendingLines == {Redir(c, <<">",">">>, t) : c \in Producers, t \in Targets}

\* the lines about the pipe: cat into wc in each mode with and without a file
\* argument, and cat into a command that changes the state
PipeSetupLines == {<<"e","c","h","o"," ","a"," ","b"," ","c"," ",">"," ","/","t","m","p","/","x">>, <<"e","c","h","o"," ","h","i"," ",">",">"," ","/","t","m","p","/","x">>, <<"t","o","u","c","h"," ","/","t","m","p","/","y">>,
                   <<"r","m"," ","/","t","m","p","/","x">>}

CatStages == {<<"c","a","t"," ","/","t","m","p","/","x">>, <<"c","a","t"," ","/","t","m","p","/","y">>, <<"c","a","t"," ","/","h","o","m","e","/","c","a","n","n","o","n","/","n","o","t","e","s","/","r","e","a","d","m","e",".","t","x","t">>,
              <<"c","a","t"," ","/","n","o","p","e">>}

WcModes == {<<>>, <<" ","-","w">>, <<" ","-","c">>}

WcFiles == {<<>>, <<" ","/","t","m","p","/","y">>, <<" ","/","n","o","p","e">>}

WcStages == {<<"w","c">> \o m \o b : m \in WcModes, b \in WcFiles}

EffectStages == {<<"r","m"," ","/","t","m","p","/","x">>, <<"t","o","u","c","h"," ","/","t","m","p","/","y">>, <<"c","d"," ","/","t","m","p">>, <<"e","c","h","o"," ","h","i"," ",">"," ","/","t","m","p","/","y">>}

PipeWcLines == {Piped(a, w) : a \in CatStages, w \in WcStages}

PipeEffectLines == {Piped(<<"c","a","t"," ","/","t","m","p","/","x">>, e) : e \in EffectStages}

\* the lines about normalization: arguments that are not canonical
NormCdLines == {<<"c","d"," ",".",".">>, <<"c","d"," ",".","/","n","o","t","e","s","/",".",".","/","l","a","b","s">>}

NormMakeLines == {<<"m","k","d","i","r"," ","/","t","m","p","/",".","/","d","/">>, <<"t","o","u","c","h"," ","/","t","m","p","/","/","d","/",".",".","/","f">>}

\* the path strings given to _norm by itself: every string of at most MaxPath
\* of these characters, and the spec's example
PathChars == {"/", ".", "a"}

NormInputs ==
    UNION {[1..n -> PathChars] : n \in 0..MaxPath} \cup {<<".",".","/",".",".","/",".",".">>}

\* the lines about mkdir: a path under a directory made later, a path that
\* is a file, a relative path and the root
TreeMkdirLines == {<<"m","k","d","i","r"," ","/","t","m","p","/","a">>, <<"m","k","d","i","r"," ","/","t","m","p","/","a","/","b">>, <<"m","k","d","i","r"," ","/","t","m","p","/","f">>, <<"m","k","d","i","r"," ","b">>,
                   <<"m","k","d","i","r"," ","/">>}

TreeSetupLines == {<<"t","o","u","c","h"," ","/","t","m","p","/","f">>, <<"r","m"," ","/","t","m","p","/","f">>, <<"c","d"," ","/","t","m","p","/","a">>}

\* the lines about the number of arguments: each command with none, and with
\* one more than it reads
ArgsMissingLines == {<<"c","d">>, <<"m","k","d","i","r">>, <<"t","o","u","c","h">>, <<"c","a","t">>, <<"r","m">>, <<"c","p">>, <<"m","v">>,
                     <<"c","p"," ","x">>, <<"m","v"," ","x">>, <<"c","p"," ","x"," ","y"," ","z">>, <<"m","v"," ","x"," ","y"," ","z">>}

ArgsExtraLines == {<<"c","d"," ","/","t","m","p"," ","/","n","o","p","e">>, <<"m","k","d","i","r"," ","d"," ","e">>, <<"t","o","u","c","h"," ","x"," ","y">>, <<"c","a","t"," ","x"," ","y">>, <<"r","m"," ","x"," ","y">>}

\* the lines about the place of the redirection: one operator, and two
\* operators in each order
CutLines == {<<"e","c","h","o"," ","h","i"," ",">"," ","a"," ",">",">"," ","b">>, <<"e","c","h","o"," ","h","i"," ",">",">"," ","a"," ",">"," ","b">>, <<"e","c","h","o"," ","h","i"," ",">"," ","a"," ",">"," ","b">>,
             <<"e","c","h","o"," ","h","i"," ",">",">"," ","a"," ",">",">"," ","b">>, <<"e","c","h","o"," ","h","i"," ",">","a",">",">","b">>}

CutOnceLines == {<<"e","c","h","o"," ","h","i"," ",">"," ","a">>, <<"e","c","h","o"," ","h","i"," ",">",">"," ","b">>}

\* the lines about quoting: a quoted argument that holds ">" , ">>" or "|", a
\* quoted argument that holds none, and a quote that is not closed
QuotedOperatorLines == {<<"e","c","h","o"," ","\"","a"," ",">"," ","b","\"">>, <<"e","c","h","o"," ","'","a"," ","|"," ","b","'">>, <<"e","c","h","o"," ","\"","a"," ",">",">"," ","b","\""," ","c">>}

QuotedLines == {<<"e","c","h","o"," ","\"","a"," "," ","b","\"">>, <<"e","c","h","o"," ","'","a","'"," ","\"","b","\"">>, <<"t","o","u","c","h"," ","'","b"," ","c","'">>, <<"e","c","h","o"," ","\"","a","b","c">>,
                <<"e","c","h","o"," ","'","a">>}

\* the lines at the edges of the syntax: blank lines, lines with an empty
\* stage or an empty target, unknown commands, and quotes that are not closed,
\* in the command and in the target of the redirection
BlankLines == {<<>>, <<" "," "," ">>}

HollowLines == {<<"|">>, <<">"," ","x">>, <<"c","a","t"," ","x"," ","|">>, <<"|"," ","w","c">>, <<"e","c","h","o"," ","h","i"," ",">">>, <<"l","s"," ","'","'">>}

UnknownLines == {<<"f","o","o">>, <<"f","o","o"," ","x"," ",">"," ","y">>, <<"L","s">>}

OpenQuoteLines == {<<"e","c","h","o"," ","'","a">>, <<"e","c","h","o"," ","\"","a"," ",">"," ","x">>, <<"c","a","t"," ","'","x">>}

OpenQuoteTargetLines == {<<"e","c","h","o"," ","h","i"," ",">"," ","'","x">>}

\* the lines that prepare the files, the directory and the cwd the lines above
\* are run in
SetupLines == {<<"t","o","u","c","h"," ","x">>, <<"r","m"," ","x">>, <<"e","c","h","o"," ","h","i"," ",">"," ","x">>, <<"m","k","d","i","r"," ","d">>, <<"c","d"," ","/","t","m","p">>,
               <<"c","d"," ","/","h","o","m","e","/","c","a","n","n","o","n">>, <<"r","m"," ","a">>, <<"r","m"," ","b">>, <<"c","a","t"," ","b">>}

Lines ==
    {<<"p","w","d">>, <<"c","a","t"," ","/","n","o","p","e">>} \cup LsLines \cup CdLines \cup MkdirLines \cup TouchLines
        \cup CatLines \cup RmLines \cup CpLines \cup MvLines \cup EchoLines \cup WcLines
        \cup RedirectLines \cup AppendLines \cup PipeLines
        \cup Producers \cup RedirSetupLines \cup OverwriteLines \cup AppendingLines
        \cup PipeSetupLines \cup CatStages \cup PipeWcLines \cup PipeEffectLines
        \cup NormCdLines \cup NormMakeLines \cup TreeMkdirLines \cup TreeSetupLines
        \cup ArgsMissingLines \cup ArgsExtraLines
        \cup CutLines \cup CutOnceLines
        \cup QuotedOperatorLines \cup QuotedLines
        \cup BlankLines \cup HollowLines \cup UnknownLines \cup OpenQuoteLines \cup OpenQuoteTargetLines \cup SetupLines
        \cup {<<"m","k","d","i","r"," ","p","r","a","c","t","i","c","e">>}

\* every line of the model as run reads it, computed once
Parsed == [l \in Lines |-> ParseLine(l)]

(***************************************************************************)
(* The state machine: one step is one call of execute.                     *)
(***************************************************************************)
Init ==
    /\ dirs = SeedDirs
    /\ files = SeedFiles
    /\ cwd = SeedCwd
    /\ line = <<>>
    /\ ok = TRUE
    /\ out = <<>>
    /\ stages = 0
    /\ sim = <<>>
    /\ main = <<>>
    /\ exam = <<>>

\* the filesystems the model follows
Bounded(fs) ==
    /\ Cardinality(DOMAIN fs.files) <= MaxFiles
    /\ \A p \in DOMAIN fs.files :
          Len(fs.files[p]) <= MaxContent \/ \E q \in DOMAIN SeedFiles : fs.files[p] = SeedFiles[q]

\* the filesystem of the current state
Fs == [dirs |-> dirs, files |-> files, cwd |-> cwd]

\* ok, output = self.shell.run(line), for the line given
Execute ==
    \E r \in {run(Fs, Parsed[line'])} :
        /\ Bounded(r.fs)
        /\ dirs' = r.fs.dirs
        /\ files' = r.fs.files
        /\ cwd' = r.fs.cwd
        /\ ok' = r.ok
        /\ out' = r.out
        /\ stages' = r.stages
        /\ UNCHANGED <<sim, main, exam>>

Pwd == line' = <<"p","w","d">> /\ Execute

Ls == \E l \in LsLines : line' = l /\ Execute

Cd == \E l \in CdLines : line' = l /\ Execute

Mkdir == \E l \in MkdirLines : line' = l /\ Execute

Touch == \E l \in TouchLines : line' = l /\ Execute

Cat == \E l \in CatLines : line' = l /\ Execute

Rm == \E l \in RmLines : line' = l /\ Execute

Cp == \E l \in CpLines : line' = l /\ Execute

Mv == \E l \in MvLines : line' = l /\ Execute

Echo == \E l \in EchoLines : line' = l /\ Execute

Wc == \E l \in WcLines : line' = l /\ Execute

Redirect == \E l \in RedirectLines : line' = l /\ Execute

AppendTo == \E l \in AppendLines : line' = l /\ Execute

Pipe == \E l \in PipeLines : line' = l /\ Execute

Next ==
    \/ Pwd
    \/ Ls
    \/ Cd
    \/ Mkdir
    \/ Touch
    \/ Cat
    \/ Rm
    \/ Cp
    \/ Mv
    \/ Echo
    \/ Wc
    \/ Redirect
    \/ AppendTo
    \/ Pipe

\* any sequence of command lines, with every command of the shell
Spec == Init /\ [][Next]_vars

RedirSetup == \E l \in RedirSetupLines : line' = l /\ Execute

Produce == \E l \in Producers : line' = l /\ Execute

Overwrite == \E l \in OverwriteLines : line' = l /\ Execute

Appending == \E l \in AppendingLines : line' = l /\ Execute

NextRedirect ==
    \/ RedirSetup
    \/ Produce
    \/ Overwrite
    \/ Appending

\* any sequence of the lines about redirection
SpecRedirect == Init /\ [][NextRedirect]_vars

PipeSetup == \E l \in PipeSetupLines : line' = l /\ Execute

PipeWc == \E l \in PipeWcLines : line' = l /\ Execute

PipeEffect == \E l \in PipeEffectLines : line' = l /\ Execute

NextPipe ==
    \/ PipeSetup
    \/ PipeWc
    \/ PipeEffect

\* any sequence of the lines about the pipe
SpecPipe == Init /\ [][NextPipe]_vars

NormCd == \E l \in NormCdLines : line' = l /\ Execute

NormMake == \E l \in NormMakeLines : line' = l /\ Execute

\* self._norm(p) by itself: out is what it returns for the path string p
Normalize ==
    \E p \in NormInputs :
        /\ line' = p
        /\ ok' = TRUE
        /\ out' = _norm(cwd, p)
        /\ stages' = 0
        /\ UNCHANGED <<dirs, files, cwd, sim, main, exam>>

NextNorm ==
    \/ NormCd
    \/ NormMake
    \/ Normalize

\* any sequence of calls of _norm and of lines whose arguments it normalizes
SpecNorm == Init /\ [][NextNorm]_vars

TreeMkdir == \E l \in TreeMkdirLines : line' = l /\ Execute

TreeSetup == \E l \in TreeSetupLines : line' = l /\ Execute

NextTree ==
    \/ TreeMkdir
    \/ TreeSetup

\* any sequence of the lines about mkdir
SpecTree == Init /\ [][NextTree]_vars

Setup == \E l \in SetupLines : line' = l /\ Execute

ArgsMissing == \E l \in ArgsMissingLines : line' = l /\ Execute

ArgsExtra == \E l \in ArgsExtraLines : line' = l /\ Execute

NextArgs ==
    \/ ArgsMissing
    \/ ArgsExtra
    \/ Setup

\* any sequence of the lines about the number of arguments
SpecArgs == Init /\ [][NextArgs]_vars

Cut == \E l \in CutLines : line' = l /\ Execute

CutOnce == \E l \in CutOnceLines : line' = l /\ Execute

NextCut ==
    \/ Cut
    \/ CutOnce

\* any sequence of the lines about the place of the redirection
SpecCut == Init /\ [][NextCut]_vars

QuotedOperator == \E l \in QuotedOperatorLines : line' = l /\ Execute

Quoted == \E l \in QuotedLines : line' = l /\ Execute

NextQuote ==
    \/ QuotedOperator
    \/ Quoted
    \/ Setup

\* any sequence of the lines about quoting
SpecQuote == Init /\ [][NextQuote]_vars

Blank == \E l \in BlankLines : line' = l /\ Execute

Hollow == \E l \in HollowLines : line' = l /\ Execute

Unknown == \E l \in UnknownLines : line' = l /\ Execute

OpenQuote == \E l \in OpenQuoteLines : line' = l /\ Execute

OpenQuoteTarget == \E l \in OpenQuoteTargetLines : line' = l /\ Execute

NextEdge ==
    \/ Blank
    \/ Hollow
    \/ Unknown
    \/ OpenQuote
    \/ OpenQuoteTarget
    \/ Setup

\* any sequence of the lines at the edges of the syntax
SpecEdge == Init /\ [][NextEdge]_vars

(***************************************************************************)
(* The missions: Topic13Runner around the shell, and main's loop over the  *)
(* missions.  sim holds the fields of the runner next to its filesystem    *)
(* (ran_pwd, score, max_score); main holds the locals of main and of       *)
(* run_mission (mlist, short, completed, attempts_left), the place where   *)
(* the program waits for input (pc), the index i of the mission of mlist   *)
(* being run, the last verdict printed (said) and the number of concept    *)
(* checkpoints run so far (checkpoints).                                   *)
(***************************************************************************)
\* the orders of the missions followed: the missions turned so that each mission
\* stands at each place
Orders ==
    LET mids == <<"1.3-A", "1.3-B", "1.3-C", "1.3-D", "1.3-E", "1.3-F", "1.3-G", "1.3-H">>
    IN  {[j \in 1..Len(mids) |-> mids[((j + k - 1) % Len(mids)) + 1]] : k \in 1..Len(mids)}

\* the success_checks of the missions of missions_for_runner; a check
\* "kind:path:substring" is <<kind, path, substring>>
success_checks(mid) ==
    CASE mid = "1.3-A" -> << <<"file_contains", <<"/","t","m","p","/","c","m","d","p","r","o","o","f">>, <<"p","w","d","_","d","o","n","e">>>> >>
      [] mid = "1.3-B" -> << <<"dir_exists", <<"/","h","o","m","e","/","c","a","n","n","o","n","/","p","r","a","c","t","i","c","e">>>> >>
      [] mid = "1.3-C" -> << <<"file_exists", <<"/","h","o","m","e","/","c","a","n","n","o","n","/","p","r","a","c","t","i","c","e","/","o","u","t",".","t","x","t">>>>,
                             <<"file_contains", <<"/","h","o","m","e","/","c","a","n","n","o","n","/","p","r","a","c","t","i","c","e","/","o","u","t",".","t","x","t">>, <<"h","e","l","l","o">>>> >>
      [] mid = "1.3-D" -> << <<"file_contains", <<"/","h","o","m","e","/","c","a","n","n","o","n","/","p","r","a","c","t","i","c","e","/","o","u","t",".","t","x","t">>, <<"a","g","a","i","n">>>> >>
      [] mid = "1.3-E" -> << <<"file_exists", <<"/","h","o","m","e","/","c","a","n","n","o","n","/","p","r","a","c","t","i","c","e","/","o","u","t",".","b","a","k">>>> >>
      [] mid = "1.3-F" -> << <<"file_contains", <<"/","t","m","p","/","p","i","p","e","p","r","o","o","f">>, <<"w","c","_","d","o","n","e">>>> >>
      [] mid = "1.3-G" -> << <<"file_contains", <<"/","t","m","p","/","c","m","d","p","r","o","o","f">>, <<"r","m","_","d","o","n","e">>>> >>
      [] OTHER -> <<>>

\* Topic13Sim._check_objective
Topic13Sim_check_objective(fs, checks) ==
    LET at(c, p) ==
            CASE c[1] = "cwd==" -> pwd(fs) = c[2]
              [] c[1] = "file_exists" -> p \in DOMAIN fs.files
              [] c[1] = "file_contains" -> p \in DOMAIN fs.files /\ Contains(fs.files[p], c[3])
              [] OTHER -> FALSE
    IN  \A k \in 1..Len(checks) : at(checks[k], _norm(fs.cwd, checks[k][2]))

_check_extra_state(ran_pwd, checks) ==
    \A k \in 1..Len(checks) : checks[k] = <<"ran_pwd">> => ran_pwd

\* Topic13Runner._check_objective: the verdict and the filesystem it leaves
_check_objective(fs, ran_pwd, checks) ==
    LET marked(f) == IF ran_pwd
                     THEN [f EXCEPT !.files = Put(f.files, <<"/","t","m","p","/","c","m","d","p","r","o","o","f">>, <<"p","w","d","_","d","o","n","e">>)]
                     ELSE f
        base == SelectSeq(checks, LAMBDA c : c[1] # "dir_exists")
    IN  IF \E k \in 1..Len(checks) :
              checks[k][1] = "dir_exists" /\ _norm(fs.cwd, checks[k][2]) \notin DOMAIN fs.dirs
        THEN [ok |-> FALSE, fs |-> fs]
        ELSE [ok |-> Topic13Sim_check_objective(fs, base)
                        \/ _check_extra_state(ran_pwd, checks),
              fs |-> marked(fs)]

\* main's check of mission 1.3-G
check_with_delete_proof(fs, ran_pwd, checks) ==
    _check_objective(
        IF <<"/","h","o","m","e","/","c","a","n","n","o","n","/","p","r","a","c","t","i","c","e","/","o","u","t",".","b","a","k">> \notin DOMAIN fs.files
        THEN [fs EXCEPT !.files = Put(fs.files, <<"/","t","m","p","/","c","m","d","p","r","o","o","f">>, <<"r","m","_","d","o","n","e">>)]
        ELSE fs,
        ran_pwd, checks)

\* Topic13Runner._run_with_hooks: what run returns, and ran_pwd
_run_with_hooks(fs, ran_pwd, ln) ==
    LET hooked(raw, r) == [ok |-> r.ok, out |-> r.out, fs |-> r.fs, stages |-> r.stages,
                           ran_pwd |-> ran_pwd \/ raw = <<"p","w","d">>]
        at(raw) == hooked(raw,
            run(IF Contains(raw, <<"|"," ","w","c"," ","-","w">>) /\ StartsWith(raw, <<"c","a","t"," ">>)
                THEN [fs EXCEPT !.files = Put(fs.files, <<"/","t","m","p","/","p","i","p","e","p","r","o","o","f">>, <<"w","c","_","d","o","n","e">>)]
                ELSE fs,
                Parsed[ln]))
    IN  at(Strip(ln, Whitespace))

\* full points whatever the number of attempts used
Points_flat(used) == 5

\* the points of run_mission for the number of attempts used before the line
Points(used) ==
    IF used <= 1 THEN 5 ELSE IF used <= 2 THEN 4 ELSE IF used <= 3 THEN 3
    ELSE IF used <= 4 THEN 2 ELSE 1

\* the head of main's loop for the mission after mn.i: the program stops, or
\* waits for the answer of mission 1.3-H, or enters run_mission
Advance(mn, sm) ==
    LET j == mn.i + 1
    IN  IF j > Len(mn.mlist) \/ mn.completed >= (IF mn.short THEN 5 ELSE 7)
        THEN [main |-> [mn EXCEPT !.pc = "done", !.attempts_left = 0], sim |-> sm]
        ELSE IF mn.mlist[j] = "1.3-H"
        THEN [main |-> [mn EXCEPT !.pc = "concept", !.i = j, !.attempts_left = 0], sim |-> sm]
        ELSE [main |-> [mn EXCEPT !.pc = "line", !.i = j, !.attempts_left = 6],
              sim |-> [sm EXCEPT !.max_score = @ + 5]]

\* the end of an iteration of main's loop after run_mission
Completed(mn, sm) ==
    IF ~mn.short /\ mn.completed + 1 = 4
    THEN [main |-> [mn EXCEPT !.completed = @ + 1, !.pc = "checkpoint", !.attempts_left = 0],
          sim |-> sm]
    ELSE Advance([mn EXCEPT !.completed = @ + 1], sm)

\* the state after Topic13Runner.__init__ and main up to its first input
InitRunner ==
    /\ dirs = (<<"/","t","m","p","/","p","r","o","o","f">> :> <<>>) @@ (<<"/","t","m","p">> :> <<<<"p","r","o","o","f">>>>) @@ SeedDirs
    /\ files = (<<"/","t","m","p","/","p","i","p","e","p","r","o","o","f">> :> <<>>) @@ (<<"/","t","m","p","/","c","m","d","p","r","o","o","f">> :> <<>>) @@ SeedFiles
    /\ cwd = SeedCwd
    /\ line = <<>>
    /\ ok = TRUE
    /\ out = <<>>
    /\ stages = 0
    /\ \E order \in Orders, short \in BOOLEAN :
          \E a \in {Advance([mlist |-> order, short |-> short, i |-> 0, completed |-> 0,
                             attempts_left |-> 0, pc |-> "start", said |-> "",
                             checkpoints |-> 0],
                            [ran_pwd |-> FALSE, score |-> 0, max_score |-> 0])} :
              main = a.main /\ sim = a.sim
    /\ exam = <<>>

\* one turn of the loop of run_mission: the line read, run through the hooks,
\* and the objective checked
Command ==
    /\ main.pc = "line"
    /\ \E l \in {<<"p","w","d">>, <<"m","k","d","i","r"," ","p","r","a","c","t","i","c","e">>, <<"c","a","t"," ","x"," ","|"," ","w","c"," ","-","w">>} :
         \E h \in {_run_with_hooks(Fs, sim.ran_pwd, l)} :
           \E c \in {IF main.mlist[main.i] = "1.3-G"
                     THEN check_with_delete_proof(h.fs, h.ran_pwd,
                                                  success_checks(main.mlist[main.i]))
                     ELSE _check_objective(h.fs, h.ran_pwd,
                                           success_checks(main.mlist[main.i]))} :
             \E a \in {IF c.ok
                       THEN Completed([main EXCEPT !.said = "complete"],
                                      [sim EXCEPT !.ran_pwd = h.ran_pwd,
                                           !.score = @ + Points(6 - main.attempts_left)])
                       ELSE IF main.attempts_left - 1 > 0
                       THEN [main |-> [main EXCEPT !.said = "not complete",
                                            !.attempts_left = @ - 1],
                             sim |-> [sim EXCEPT !.ran_pwd = h.ran_pwd]]
                       ELSE Completed([main EXCEPT !.said = "failed"],
                                      [sim EXCEPT !.ran_pwd = h.ran_pwd])} :
               /\ line' = l
               /\ ok' = h.ok
               /\ out' = h.out
               /\ stages' = h.stages
               /\ dirs' = c.fs.dirs
               /\ files' = c.fs.files
               /\ cwd' = c.fs.cwd
               /\ main' = a.main
               /\ sim' = a.sim
               /\ UNCHANGED exam

\* the line q, quit or exit at the prompt of a mission
Quit ==
    /\ main.pc = "line"
    /\ main' = [main EXCEPT !.pc = "quit"]
    /\ UNCHANGED <<dirs, files, cwd, line, ok, out, stages, sim, exam>>

\* concept_checkpoint: the question q drawn and the answer ans typed
Checkpoint ==
    /\ main.pc = "checkpoint"
    /\ \E q \in 1..3, ans \in 0..4 :
         \E a \in {Advance([main EXCEPT !.checkpoints = @ + 1,
                                 !.said = IF ans - 1 = <<1, 0, 1>>[q]
                                          THEN "correct" ELSE "not quite"],
                           [sim EXCEPT !.max_score = @ + 5,
                                !.score = @ + (IF ans - 1 = <<1, 0, 1>>[q] THEN 5 ELSE 2)])} :
           main' = a.main /\ sim' = a.sim
    /\ UNCHANGED <<dirs, files, cwd, line, ok, out, stages, exam>>

\* mission 1.3-H in main: concept_mission_cli_reason and the `continue`
Concept ==
    /\ main.pc = "concept"
    /\ \E ans \in 0..4 :
         \E a \in {Advance([main EXCEPT !.completed = @ + 1,
                                 !.said = IF ans - 1 = 1 THEN "correct" ELSE "not quite"],
                           [sim EXCEPT !.max_score = @ + 5,
                                !.score = @ + (IF ans - 1 = 1 THEN 5 ELSE 2)])} :
           main' = a.main /\ sim' = a.sim
    /\ UNCHANGED <<dirs, files, cwd, line, ok, out, stages, exam>>

NextRunner ==
    \/ Command
    \/ Quit
    \/ Checkpoint
    \/ Concept

\* any run of main
SpecRunner == InitRunner /\ [][NextRunner]_vars

\* ---- the mock exams: answer options shuffled before a question is asked ----

\* the orders rng.shuffle can leave list(range(4)) in
Shuffles ==
    {p \in [1..4 -> 0..3] : \A i \in 0..3 : \E k \in 1..4 : p[k] = i}

\* list.index: the 0-based position of the first element equal to x
index(s, x) ==
    (CHOOSE k \in 1..Len(s) : s[k] = x /\ \A j \in 1..(k - 1) : s[j] # x) - 1

\* shuffle_choices of 1mockexam.py; indexed is list(enumerate(mcq.choices))
\* after rng.shuffle, a sequence of pairs <<old_idx, choice>>
shuffle_choices(mcq, indexed) ==
    LET new_choices == [k \in 1..Len(indexed) |-> indexed[k][2]]
        new_correct ==
            (CHOOSE i \in 1..Len(indexed) :
                /\ indexed[i][1] = mcq.correct_index
                /\ \A j \in 1..(i - 1) : indexed[j][1] # mcq.correct_index) - 1
    IN  [options |-> new_choices, correct |-> new_correct]

\* a shuffle_question whose new index is read from idx at the old index
shuffle_question_inverse(q, idx) ==
    [options |-> [k \in 1..4 |-> q.options[idx[k] + 1]], correct |-> idx[q.correct + 1]]

\* shuffle_question of 2mockexam.py; idx is list(range(4)) after rng.shuffle
shuffle_question(q, idx) ==
    LET new_opts == [k \in 1..4 |-> q.options[idx[k] + 1]]
        new_correct == index(idx, q.correct)
    IN  [options |-> new_opts, correct |-> new_correct]

\* shuffle_options of 3mockexam.py
shuffle_options(q, idx) ==
    LET new_opts == [k \in 1..4 |-> q.options[idx[k] + 1]]
        new_correct == index(idx, q.correct)
    IN  [options |-> new_opts, correct |-> new_correct]

\* shuffle_options of 4mockexam.py
shuffle_options_4(q, order) ==
    LET new_opts == [k \in 1..4 |-> q.options[order[k] + 1]]
        new_correct == index(order, q.correct)
    IN  [options |-> new_opts, correct |-> new_correct]

\* a question of a bank: 4 option texts, equal texts allowed, and the index of
\* the correct one; not shuffled yet
InitShuffle ==
    /\ dirs = SeedDirs
    /\ files = SeedFiles
    /\ cwd = SeedCwd
    /\ line = <<>>
    /\ ok = TRUE
    /\ out = <<>>
    /\ stages = 0
    /\ sim = <<>>
    /\ main = <<>>
    /\ \E options \in [1..4 -> {"w", "x", "y", "z"}], correct \in 0..3 :
          exam = [q |-> [options |-> options, correct |-> correct],
                  by |-> "", shuffled |-> <<>>]

\* 1mockexam.py: ask_question shuffles the choices of the question
ShuffleChoices ==
    /\ exam.by = ""
    /\ \E p \in Shuffles :
          exam' = [exam EXCEPT !.by = "shuffle_choices",
                       !.shuffled = shuffle_choices(
                           [choices |-> exam.q.options, correct_index |-> exam.q.correct],
                           [k \in 1..4 |-> <<p[k], exam.q.options[p[k] + 1]>>])]
    /\ UNCHANGED <<dirs, files, cwd, line, ok, out, stages, sim, main>>

\* 2mockexam.py: main shuffles each question of the exam
ShuffleQuestion ==
    /\ exam.by = ""
    /\ \E idx \in Shuffles :
          exam' = [exam EXCEPT !.by = "shuffle_question",
                       !.shuffled = shuffle_question(exam.q, idx)]
    /\ UNCHANGED <<dirs, files, cwd, line, ok, out, stages, sim, main>>

\* 3mockexam.py: main shuffles each question of the exam
ShuffleOptions ==
    /\ exam.by = ""
    /\ \E idx \in Shuffles :
          exam' = [exam EXCEPT !.by = "shuffle_options",
                       !.shuffled = shuffle_options(exam.q, idx)]
    /\ UNCHANGED <<dirs, files, cwd, line, ok, out, stages, sim, main>>

\* 4mockexam.py: main shuffles each question of the exam
ShuffleOptions4 ==
    /\ exam.by = ""
    /\ \E order \in Shuffles :
          exam' = [exam EXCEPT !.by = "shuffle_options_4",
                       !.shuffled = shuffle_options_4(exam.q, order)]
    /\ UNCHANGED <<dirs, files, cwd, line, ok, out, stages, sim, main>>

NextShuffle ==
    \/ ShuffleChoices
    \/ ShuffleQuestion
    \/ ShuffleOptions
    \/ ShuffleOptions4

SpecShuffle == InitShuffle /\ [][NextShuffle]_vars

(***************************************************************************)
(* The properties.  A property of one call of execute is an action         *)
(* property: the unprimed variables are the state before the call, the     *)
(* primed ones the state after it with the line given and what it returned.*)
(***************************************************************************)
\* the path p with its last segment removed
ParentPath(p) ==
    LET k == CHOOSE i \in 1..Len(p) : p[i] = "/" /\ \A j \in (i + 1)..Len(p) : p[j] # "/"
    IN  IF k = 1 THEN <<"/">> ELSE SubSeq(p, 1, k - 1)

\* the last segment of the path p
LastSegment(p) ==
    LET k == CHOOSE i \in 1..Len(p) : p[i] = "/" /\ \A j \in (i + 1)..Len(p) : p[j] # "/"
    IN  SubSeq(p, k + 1, Len(p))

\* the paths that exist, the root apart
Existing == (DOMAIN dirs \cup DOMAIN files) \ {<<"/">>}

\* the number of maximal runs of characters of s that are not whitespace
WordCount(s) ==
    Cardinality({i \in 1..Len(s) :
        s[i] \notin Whitespace /\ (i = 1 \/ s[i - 1] \in Whitespace)})

\* the target of the redirection of the line l
Target(l) == _norm(cwd, Parsed[l][1].redirect_path[1])

\* what execute returns for the line l in the state before the call
Alone(l) == run(Fs, Parsed[l])

\* C1: after any sequence of command lines no canonical path is a key of the
\* directory collection and a key of the file collection at once.
C1_NoPathIsDirectoryAndFile == DOMAIN dirs \cap DOMAIN files = {}

\* C2: when `mv src dst` succeeds, dst is a File with the content src had; src
\* is gone if the two resolved paths differ; no other file, no directory and
\* not cwd is changed.
C2_MvMovesTheContent ==
    [][\A l \in MvLines : (line' = l /\ ok') =>
        LET s == _norm(cwd, Parsed[l][1].argv[2])
            d == _norm(cwd, Parsed[l][1].argv[3])
        IN  /\ d \in DOMAIN files'
            /\ files'[d] = files[s]
            /\ (s # d => s \notin DOMAIN files')
            /\ DOMAIN files' \ {s, d} = DOMAIN files \ {s, d}
            /\ \A p \in DOMAIN files \ {s, d} : files'[p] = files[p]
            /\ dirs' = dirs
            /\ cwd' = cwd]_vars

\* C3: a command line without a pipe that fails leaves the directories, the
\* files with their contents and cwd exactly as they were: a redirection
\* target is neither created nor modified, a failing mv keeps src and dst.
C3_FailureChangesNothing ==
    [][(~Contains(line', <<"|">>) /\ ~ok') => (dirs' = dirs /\ files' = files /\ cwd' = cwd)]_vars

\* C3 witness: mv of an existing file to a path whose parent is no directory
\* has failed and the file is still there.
C3_FailedMvKeepsSource ==
    /\ line = <<"m","v"," ","x"," ","/","n","o","p","e","/","x">>
    /\ ~ok
    /\ _norm(cwd, <<"x">>) \in DOMAIN files

\* C4: after `C > T` succeeds T holds exactly the output of C, whatever T held;
\* after `C >> T` succeeds T holds what it held (nothing if it did not exist)
\* followed by the output of C.  So cat after `echo hello > /tmp/x.txt` returns
\* "hello\n", and `echo again >> /tmp/x.txt` makes that "hello\nagain\n".
C4_RedirectionWritesTheOutput ==
    [][/\ \A c \in Producers, t \in Targets :
            /\ (line' = Redir(c, <<">">>, t) /\ ok') =>
                  /\ _norm(cwd, t) \in DOMAIN files'
                  /\ files'[_norm(cwd, t)] = Alone(c).out
            /\ (line' = Redir(c, <<">",">">>, t) /\ ok') =>
                  /\ _norm(cwd, t) \in DOMAIN files'
                  /\ files'[_norm(cwd, t)] =
                        (IF _norm(cwd, t) \in DOMAIN files THEN files[_norm(cwd, t)] ELSE <<>>)
                            \o Alone(c).out
       /\ (line' = <<"e","c","h","o"," ","h","e","l","l","o"," ",">"," ","/","t","m","p","/","x",".","t","x","t">> /\ ok') => files'[<<"/","t","m","p","/","x",".","t","x","t">>] = <<"h","e","l","l","o","\n">>
       /\ (line' = <<"e","c","h","o"," ","a","g","a","i","n"," ",">",">"," ","/","t","m","p","/","x",".","t","x","t">> /\ ok' /\ line = <<"e","c","h","o"," ","h","e","l","l","o"," ",">"," ","/","t","m","p","/","x",".","t","x","t">> /\ ok)
             => files'[<<"/","t","m","p","/","x",".","t","x","t">>] = <<"h","e","l","l","o","\n","a","g","a","i","n","\n">>
       /\ (line' = <<"c","a","t"," ","/","t","m","p","/","x",".","t","x","t">> /\ ok'
              /\ files[<<"/","t","m","p","/","x",".","t","x","t">>] \in {<<"h","e","l","l","o","\n">>, <<"h","e","l","l","o","\n","a","g","a","i","n","\n">>})
             => out' = files[<<"/","t","m","p","/","x",".","t","x","t">>]]_vars

\* C4 witness: `echo again >> /tmp/x.txt` has succeeded on the file that
\* `echo hello > /tmp/x.txt` wrote.
C4_HelloAgain ==
    /\ line = <<"e","c","h","o"," ","a","g","a","i","n"," ",">",">"," ","/","t","m","p","/","x",".","t","x","t">>
    /\ ok
    /\ <<"/","t","m","p","/","x",".","t","x","t">> \in DOMAIN files
    /\ files[<<"/","t","m","p","/","x",".","t","x","t">>] = <<"h","e","l","l","o","\n","a","g","a","i","n","\n">>

\* C5: on every line with a redirection `> T` or `>> T` that succeeds, whatever
\* its command, the output returned is empty and T is afterwards a File that
\* holds the output of the command (the empty string when it prints nothing).
C5_EveryCommandIsRedirected ==
    [][/\ \A ct \in Redirects : (line' = Redir(ct[1], <<">">>, ct[2]) /\ ok') =>
            /\ out' = <<>>
            /\ Target(line') \in DOMAIN files'
            /\ files'[Target(line')] = Alone(ct[1]).out
       /\ \A ct \in Appends : (line' = Redir(ct[1], <<">",">">>, ct[2]) /\ ok') =>
            /\ out' = <<>>
            /\ Target(line') \in DOMAIN files'
            /\ files'[Target(line')] =
                  (IF Target(line') \in DOMAIN files THEN files[Target(line')] ELSE <<>>)
                      \o Alone(ct[1]).out]_vars

\* C6: on `stage1 | stage2`, if stage 1 fails execute returns the failure of
\* stage 1, stage 2 is not run and nothing it would do shows in the state;
\* stage 2 is run only after stage 1 has succeeded.
C6_FailedStageStopsThePipe ==
    [][\A a \in CatStages, b \in WcStages \cup EffectStages : line' = Piped(a, b) =>
        /\ ~Alone(a).ok =>
              /\ ~ok'
              /\ out' = Alone(a).out
              /\ stages' = 1
              /\ dirs' = dirs /\ files' = files /\ cwd' = cwd
        /\ stages' = 2 => Alone(a).ok]_vars

\* C6 witness: cat of a missing file piped into touch has failed and touch has
\* created nothing.
C6_TouchNotRun ==
    /\ line = <<"c","a","t"," ","/","t","m","p","/","x"," ","|"," ","t","o","u","c","h"," ","/","t","m","p","/","y">>
    /\ ~ok
    /\ stages = 1
    /\ <<"/","t","m","p","/","y">> \notin DOMAIN files

\* C7: `cat A | wc MODE B` with A a File succeeds and returns the count, in
\* that mode, of the output of `cat A`, whatever B is: a File with another
\* content, a path that does not exist, or no argument.
C7_WcCountsThePipedInput ==
    [][\A a \in CatStages, m \in WcModes, b \in WcFiles :
        (line' = Piped(a, <<"w","c">> \o m \o b) /\ Alone(a).ok) =>
            /\ ok'
            /\ out' = wc_count(Alone(a).out, Drop(m, 1)) \o <<"\n">>
            /\ dirs' = dirs /\ files' = files /\ cwd' = cwd]_vars

\* C7 witness: the three words of /tmp/x counted although wc names a path that
\* does not exist.
C7_CountedWithMissingFile ==
    /\ line = <<"c","a","t"," ","/","t","m","p","/","x"," ","|"," ","w","c"," ","-","w"," ","/","n","o","p","e">>
    /\ ok
    /\ out = <<"3","\n">>
    /\ <<"/","t","m","p","/","x">> \in DOMAIN files

\* C8 as stated: `cat F | wc -w` on a File F succeeds and returns exactly the
\* decimal number of whitespace-separated words of its content.
C8_WordCountAlone ==
    [][\A f \in DOMAIN files : (line' = Piped(<<"c","a","t"," ">> \o f, <<"w","c"," ","-","w">>)) =>
        /\ ok'
        /\ out' = Str(WordCount(files[f]))]_vars

\* C8 amended: `cat F | wc -w` on a File F succeeds and returns the decimal
\* number of whitespace-separated words of its content followed by a newline.
C8_WordCountAndNewline ==
    [][\A f \in DOMAIN files : (line' = Piped(<<"c","a","t"," ">> \o f, <<"w","c"," ","-","w">>)) =>
        /\ ok'
        /\ out' = Str(WordCount(files[f])) \o <<"\n">>]_vars

\* C8 witness: the words of "a b c\n" counted.
C8_ThreeWords ==
    /\ line = <<"c","a","t"," ","/","t","m","p","/","x"," ","|"," ","w","c"," ","-","w">>
    /\ ok
    /\ out = <<"3","\n">>
    /\ <<"/","t","m","p","/","x">> \in DOMAIN files
    /\ files[<<"/","t","m","p","/","x">>] = <<"a"," ","b"," ","c","\n">>

\* C9: every path that exists, the root apart, has its parent path among the
\* keys of the directory collection.
C9_ParentIsADirectory == \A p \in Existing : ParentPath(p) \in DOMAIN dirs

\* C9 witness: a directory made by mkdir and a file made by cp or mv exist.
C9_CreatedPaths ==
    /\ <<"/","h","o","m","e","/","c","a","n","n","o","n","/","d">> \in DOMAIN dirs
    /\ <<"/","t","m","p","/","x">> \in DOMAIN files

\* C10 as stated: the names recorded for a Directory D are exactly the last
\* segments of the paths, files and directories alike, whose parent is D.
C10_ChildrenAreAllPaths ==
    \A D \in DOMAIN dirs :
        {dirs[D][i] : i \in DOMAIN dirs[D]}
            = {LastSegment(p) : p \in {q \in Existing : ParentPath(q) = D}}

\* C10 amended: the names recorded for a Directory D are, each once, exactly
\* the last segments of the Directories whose parent is D; a File is recorded
\* in the file collection only.
C10_ChildrenAreTheDirectories ==
    \A D \in DOMAIN dirs :
        /\ \A i, j \in DOMAIN dirs[D] : dirs[D][i] = dirs[D][j] => i = j
        /\ {dirs[D][i] : i \in DOMAIN dirs[D]}
              = {LastSegment(p) : p \in {q \in DOMAIN dirs \ {<<"/">>} : ParentPath(q) = D}}

\* C10 witness: a directory made by mkdir and a file made by touch under the
\* same directory.
C10_DirectoryAndFileMade ==
    /\ <<"/","h","o","m","e","/","c","a","n","n","o","n","/","d">> \in DOMAIN dirs
    /\ <<"/","h","o","m","e","/","c","a","n","n","o","n","/","x">> \in DOMAIN files
    /\ dirs[<<"/","h","o","m","e","/","c","a","n","n","o","n">>] = <<<<"n","o","t","e","s">>, <<"l","a","b","s">>, <<"d">>>>

\* C11: in every reachable state the root is a key of the directory
\* collection and so is cwd: no line removes the directory cwd names or sets
\* cwd to a path that is not a Directory.
C11_RootAndCwdAreDirectories ==
    /\ <<"/">> \in DOMAIN dirs
    /\ cwd \in DOMAIN dirs

\* C11 witness: after a cd that succeeded, a cd to a path that is no
\* directory has failed and cwd is still the directory of the first.
C11_FailedCdKeepsCwd ==
    /\ line = <<"c","d"," ","/","n","o","p","e">>
    /\ ~ok
    /\ cwd = <<"/","t","m","p">>

\* C12: cwd changes only through a cd that succeeds: every other line and
\* every failing cd leaves cwd as it was; a cd that succeeds sets cwd to the
\* normalized argument, returns no output and changes no file and no directory.
C12_OnlyCdMovesCwd ==
    [][/\ ~(line' \in CdLines /\ ok') => cwd' = cwd
       /\ (line' \in CdLines /\ ok') =>
            /\ cwd' = _norm(cwd, Parsed[line'][1].argv[2])
            /\ out' = <<>>
            /\ files' = files
            /\ dirs' = dirs]_vars

\* C12 witness: a cd with a relative argument has succeeded from the seed cwd.
C12_EnteredTmp ==
    /\ line = <<"c","d"," ",".",".","/",".",".","/","t","m","p">>
    /\ ok
    /\ out = <<>>
    /\ cwd = <<"/","t","m","p">>

\* p is the root or /seg1/.../segN: no trailing slash, no empty segment and no
\* segment "." or ".."
Canonical(p) ==
    LET At(i) == IF i <= Len(p) THEN p[i] ELSE "/"
    IN  /\ p # <<>>
        /\ p[1] = "/"
        /\ Len(p) > 1 =>
              \A i \in 1..Len(p) : p[i] = "/" =>
                  /\ i < Len(p)
                  /\ At(i + 1) # "/"
                  /\ ~(At(i + 1) = "." /\ At(i + 2) = "/")
                  /\ ~(At(i + 1) = "." /\ At(i + 2) = "." /\ At(i + 3) = "/")

\* C13: normalization is idempotent: what _norm returns for cwd and any input
\* string is returned again by _norm for it, from any directory.
C13_NormIsIdempotent ==
    \A c2 \in DOMAIN dirs : _norm(c2, _norm(cwd, line)) = _norm(cwd, line)

\* C13 witness: a relative path with ".." normalized from /home.
C13_DotDotNormalized ==
    /\ line = <<".",".","/","a">>
    /\ cwd = <<"/","h","o","m","e">>
    /\ out = <<"/","a">>

\* C14: _norm returns a canonical path for every input string, a ".." at the
\* root is dropped so that _norm("/", "../../..") is "/", and cwd and every
\* key of the directory and file collections is canonical.
C14_NormIsCanonical ==
    /\ Canonical(_norm(cwd, line))
    /\ _norm(<<"/">>, <<".",".","/",".",".","/",".",".">>) = <<"/">>
    /\ Canonical(cwd)
    /\ \A p \in DOMAIN dirs \cup DOMAIN files : Canonical(p)

\* C14 witness: the spec's example at the root, with a directory and a file
\* made through arguments that were not canonical.
C14_AboveRoot ==
    /\ line = <<".",".","/",".",".","/",".",".">>
    /\ cwd = <<"/">>
    /\ out = <<"/">>
    /\ <<"/","t","m","p","/","d">> \in DOMAIN dirs
    /\ <<"/","t","m","p","/","f">> \in DOMAIN files

\* C15: `mkdir P` fails with "No such file or directory" and changes nothing
\* while the parent of P is no Directory; with the parent there and P not, it
\* succeeds, makes the empty Directory P, records it once in the list of its
\* parent and changes nothing else; on a P that exists, Directory or File, it
\* fails with "File exists" and changes nothing.
C15_MkdirOnceUnderItsParent ==
    [][\A l \in TreeMkdirLines : line' = l =>
        LET arg == Parsed[l][1].argv[2]
            P == _norm(cwd, arg)
            parent == ParentPath(P)
            same == dirs' = dirs /\ files' = files /\ cwd' = cwd
        IN  /\ P \in DOMAIN dirs \cup DOMAIN files =>
                  /\ ~ok'
                  /\ out' = <<"m","k","d","i","r",":"," ","c","a","n","n","o","t"," ","c","r","e","a","t","e"," ","d","i","r","e","c","t","o","r","y"," ","'">> \o arg \o <<"'",":"," ","F","i","l","e"," ","e","x","i","s","t","s","\n">>
                  /\ same
            /\ (P \notin DOMAIN dirs \cup DOMAIN files /\ parent \notin DOMAIN dirs) =>
                  /\ ~ok'
                  /\ out' = <<"m","k","d","i","r",":"," ","c","a","n","n","o","t"," ","c","r","e","a","t","e"," ","d","i","r","e","c","t","o","r","y"," ","'">> \o arg
                                \o <<"'",":"," ","N","o"," ","s","u","c","h"," ","f","i","l","e"," ","o","r"," ","d","i","r","e","c","t","o","r","y","\n">>
                  /\ same
            /\ (P \notin DOMAIN dirs \cup DOMAIN files /\ parent \in DOMAIN dirs) =>
                  /\ ok'
                  /\ out' = <<>>
                  /\ DOMAIN dirs' = DOMAIN dirs \cup {P}
                  /\ dirs'[P] = <<>>
                  /\ dirs'[parent] = Append(dirs[parent], LastSegment(P))
                  /\ \A i \in DOMAIN dirs[parent] : dirs[parent][i] # LastSegment(P)
                  /\ \A D \in DOMAIN dirs \ {parent} : dirs'[D] = dirs[D]
                  /\ files' = files
                  /\ cwd' = cwd]_vars

\* C15 witness: mkdir of a path under a directory made before it has
\* succeeded.
C15_MadeUnderNewParent ==
    /\ line = <<"m","k","d","i","r"," ","/","t","m","p","/","a","/","b">>
    /\ ok
    /\ <<"/","t","m","p","/","a","/","b">> \in DOMAIN dirs
    /\ dirs[<<"/","t","m","p","/","a">>] = <<<<"b">>>>

\* C16: rm of a path that is a Directory fails with "Is a directory" and
\* changes nothing; rm of a path that is neither File nor Directory fails with
\* "No such file" and changes nothing; rm of a path that is a File and no
\* Directory succeeds and removes exactly that File.
C16_RmRefusesDirectories ==
    [][\A l \in RmLines : line' = l =>
        LET arg == Parsed[l][1].argv[2]
            P == _norm(cwd, arg)
            same == dirs' = dirs /\ files' = files /\ cwd' = cwd
        IN  /\ P \in DOMAIN dirs =>
                  /\ ~ok'
                  /\ out' = <<"r","m",":"," ","c","a","n","n","o","t"," ","r","e","m","o","v","e"," ","'">> \o arg \o <<"'",":"," ","I","s"," ","a"," ","d","i","r","e","c","t","o","r","y","\n">>
                  /\ same
            /\ (P \notin DOMAIN dirs /\ P \notin DOMAIN files) =>
                  /\ ~ok'
                  /\ out' = <<"r","m",":"," ","c","a","n","n","o","t"," ","r","e","m","o","v","e"," ","'">> \o arg \o <<"'",":"," ","N","o"," ","s","u","c","h"," ","f","i","l","e","\n">>
                  /\ same
            /\ (P \notin DOMAIN dirs /\ P \in DOMAIN files) =>
                  /\ ok'
                  /\ out' = <<>>
                  /\ DOMAIN files' = DOMAIN files \ {P}
                  /\ \A q \in DOMAIN files' : files'[q] = files[q]
                  /\ dirs' = dirs
                  /\ cwd' = cwd]_vars

\* C17: touch of a path that is a File succeeds and changes nothing; touch of
\* a path that does not exist and whose parent is a Directory succeeds and
\* creates a File with empty content, changing nothing else; touch of a path
\* whose parent is no Directory fails with "No such directory" and changes
\* nothing.
C17_TouchCreatesOrKeeps ==
    [][\A l \in TouchLines : line' = l =>
        LET arg == Parsed[l][1].argv[2]
            P == _norm(cwd, arg)
        IN  /\ P \in DOMAIN files =>
                  /\ ok'
                  /\ out' = <<>>
                  /\ files' = files /\ dirs' = dirs /\ cwd' = cwd
            /\ (P \notin Existing /\ P # <<"/">> /\ ParentPath(P) \in DOMAIN dirs) =>
                  /\ ok'
                  /\ out' = <<>>
                  /\ DOMAIN files' = DOMAIN files \cup {P}
                  /\ files'[P] = <<>>
                  /\ \A q \in DOMAIN files : files'[q] = files[q]
                  /\ dirs' = dirs /\ cwd' = cwd
            /\ (P # <<"/">> /\ ParentPath(P) \notin DOMAIN dirs) =>
                  /\ ~ok'
                  /\ out' = <<"t","o","u","c","h",":"," ","c","a","n","n","o","t"," ","t","o","u","c","h"," ","'">> \o arg \o <<"'",":"," ","N","o"," ","s","u","c","h"," ","d","i","r","e","c","t","o","r","y","\n">>
                  /\ files' = files /\ dirs' = dirs /\ cwd' = cwd]_vars

\* C17 happens: touch of a file that holds a line succeeded and the line is there
C17_TouchedFileKeepsContent ==
    /\ line = <<"t","o","u","c","h"," ","x">>
    /\ ok
    /\ <<"/","h","o","m","e","/","c","a","n","n","o","n","/","x">> \in DOMAIN files
    /\ files[<<"/","h","o","m","e","/","c","a","n","n","o","n","/","x">>] = <<"h","i","\n">>

\* C18: `cp src dst` fails with "No such file" when src is no File, and with
\* "No such directory" when src is a File and the parent of dst is no
\* Directory, changing nothing; otherwise it succeeds, dst is a File with the
\* content of src, src is a File with the content it had (also when src and
\* dst are one path), and no other file, no directory and not cwd is changed.
C18_CpCopiesAndKeepsSource ==
    [][\A l \in CpLines : line' = l =>
        LET src == Parsed[l][1].argv[2]
            dst == Parsed[l][1].argv[3]
            S == _norm(cwd, src)
            D == _norm(cwd, dst)
            same == dirs' = dirs /\ files' = files /\ cwd' = cwd
        IN  IF S \notin DOMAIN files
            THEN /\ ~ok'
                 /\ out' = <<"c","p",":"," ","c","a","n","n","o","t"," ","s","t","a","t"," ","'">> \o src \o <<"'",":"," ","N","o"," ","s","u","c","h"," ","f","i","l","e","\n">>
                 /\ same
            ELSE IF ParentPath(D) \notin DOMAIN dirs
            THEN /\ ~ok'
                 /\ out' = <<"c","p",":"," ","c","a","n","n","o","t"," ","c","r","e","a","t","e"," ","r","e","g","u","l","a","r"," ","f","i","l","e"," ","'">> \o dst
                               \o <<"'",":"," ","N","o"," ","s","u","c","h"," ","d","i","r","e","c","t","o","r","y","\n">>
                 /\ same
            ELSE /\ ok'
                 /\ out' = <<>>
                 /\ DOMAIN files' = DOMAIN files \cup {D}
                 /\ files'[D] = files[S]
                 /\ files'[S] = files[S]
                 /\ \A q \in DOMAIN files \ {D} : files'[q] = files[q]
                 /\ dirs' = dirs /\ cwd' = cwd]_vars

\* C18 happens: a file that holds a line was copied to another path and onto itself
C18_CopiedAndKept ==
    /\ line \in {<<"c","p"," ","x"," ","/","t","m","p","/","x">>, <<"c","p"," ","x"," ","x">>}
    /\ ok
    /\ <<"/","h","o","m","e","/","c","a","n","n","o","n","/","x">> \in DOMAIN files
    /\ files[<<"/","h","o","m","e","/","c","a","n","n","o","n","/","x">>] = <<"h","i","\n">>
    /\ line = <<"c","p"," ","x"," ","/","t","m","p","/","x">> =>
          (<<"/","t","m","p","/","x">> \in DOMAIN files /\ files[<<"/","t","m","p","/","x">>] = <<"h","i","\n">>)

\* C19: ls of a path that is a Directory (cwd when no path is given) succeeds
\* and returns, sorted and each once, the names of the Directories and Files
\* whose parent is that directory; ls of a path that is no Directory fails
\* with "No such directory"; ls changes nothing.
C19_LsListsEachChildOnce ==
    [][\A l \in LsLines : (line' = l) =>
        LET argv == Parsed[l][1].argv
            P == IF Len(argv) > 1 THEN _norm(cwd, argv[2]) ELSE cwd
            names == {LastSegment(q) : q \in {e \in Existing : ParentPath(e) = P}}
        IN  /\ dirs' = dirs /\ files' = files /\ cwd' = cwd
            /\ P \in DOMAIN dirs =>
                  /\ ok'
                  /\ out' = IF names = {} THEN <<>>
                            ELSE Join(<<" "," ">>, SortedSet(names)) \o <<"\n">>
            /\ P \notin DOMAIN dirs =>
                  /\ ~ok'
                  /\ out' = <<"l","s",":"," ","c","a","n","n","o","t"," ","a","c","c","e","s","s"," ","'">> \o argv[2] \o <<"'",":"," ","N","o"," ","s","u","c","h"," ","d","i","r","e","c","t","o","r","y">>]_vars

\* C20: `cat F` of a path that is a File succeeds and returns exactly the
\* content of F, so that a successful `cat F > G` leaves G with the content F
\* had; cat of a path that is no File fails with "No such file".
C20_CatReturnsContentVerbatim ==
    [][LET F == <<"/","t","m","p","/","x",".","t","x","t">>
           missing == <<"c","a","t",":"," ","/","t","m","p","/","x",".","t","x","t",":"," ","N","o"," ","s","u","c","h"," ","f","i","l","e">>
       IN  /\ (line' = <<"c","a","t"," ","/","t","m","p","/","x",".","t","x","t">>) =>
                 IF F \in DOMAIN files
                 THEN ok' /\ out' = files[F]
                 ELSE ~ok' /\ out' = missing
           /\ \A t \in Targets : (line' = Redir(<<"c","a","t"," ","/","t","m","p","/","x",".","t","x","t">>, <<">">>, t)) =>
                 IF F \in DOMAIN files
                 THEN ok' => (_norm(cwd, t) \in DOMAIN files'
                                /\ files'[_norm(cwd, t)] = files[F])
                 ELSE ~ok' /\ out' = missing]_vars

\* the number of lines of s: its newlines, and one more for a last line
\* without a newline
LineCount(s) ==
    Cardinality({i \in 1..Len(s) : s[i] = "\n"})
        + (IF s # <<>> /\ s[Len(s)] # "\n" THEN 1 ELSE 0)

\* C21: wc counts words with `-w`, bytes with `-c` and lines with no flag, of
\* the named File when no pipe feeds it and of its input when piped; `wc PATH`
\* on a File succeeds and returns the number of lines of PATH.
C21_WcCountsInEveryMode ==
    [][\A m \in WcModes :
        LET X == _norm(cwd, <<"x">>)
            count(s) == IF m = <<" ","-","w">> THEN Str(WordCount(s))
                        ELSE IF m = <<" ","-","c">> THEN Str(Len(s))
                        ELSE Str(LineCount(s))
        IN  /\ (line' = (<<"w","c">> \o m \o <<" ","x">>) /\ X \in DOMAIN files) =>
                  /\ ok'
                  /\ out' = count(files[X]) \o <<"\n">>
                  /\ dirs' = dirs /\ files' = files /\ cwd' = cwd
            /\ (line' = (<<"c","a","t"," ","x"," ","|"," ","w","c">> \o m) /\ X \in DOMAIN files /\ files[X] # <<>>) =>
                  /\ ok'
                  /\ out' = count(files[X]) \o <<"\n">>
                  /\ dirs' = dirs /\ files' = files /\ cwd' = cwd]_vars

\* the messages of a wrong number of arguments for the command cmd
Mismatch(cmd) ==
    {cmd \o <<":"," ","m","i","s","s","i","n","g"," ","o","p","e","r","a","n","d","\n">>, cmd \o <<":"," ","m","i","s","s","i","n","g"," ","f","i","l","e"," ","o","p","e","r","a","n","d","\n">>,
     cmd \o <<":"," ","u","s","a","g","e",":"," ">> \o cmd \o <<" ","S","R","C"," ","D","S","T","\n">>}

\* C22: cd, mkdir, touch, cat and rm with no argument or with two, and cp and
\* mv with a number of arguments other than two, fail with a missing-operand
\* or usage message and change no directory, no file and not cwd.
C22_WrongArgumentCountFails ==
    [][\A l \in (ArgsMissingLines \cup ArgsExtraLines) : line' = l =>
        /\ ~ok'
        /\ out' \in Mismatch(Parsed[l][1].argv[1])
        /\ dirs' = dirs /\ files' = files /\ cwd' = cwd]_vars

\* the stage ln cut at its first ">": the text before it, the text after the
\* operator, and whether the operator is ">>"
FirstCut(ln) ==
    LET k == CHOOSE i \in 1..Len(ln) : ln[i] = ">" /\ \A j \in 1..(i - 1) : ln[j] # ">"
        app == k < Len(ln) /\ ln[k + 1] = ">"
    IN  [line |-> Strip(SubSeq(ln, 1, k - 1), Whitespace),
         redirect_path |-> <<Strip(SubSeq(ln, k + (IF app THEN 2 ELSE 1), Len(ln)), Whitespace)>>,
         append |-> app]

\* C23: the redirection of a stage is its first ">" or ">>" (">>" when the
\* first ">" is followed at once by another): the command is the text before
\* it, the target the text after it, and the file is appended to for ">>" and
\* overwritten for ">", also when another operator follows later in the line.
C23_FirstOperatorRedirects ==
    [][\A l \in (CutLines \cup CutOnceLines) : line' = l =>
        LET c == FirstCut(l)
            T == _norm(cwd, c.redirect_path[1])
        IN  /\ Parsed[l][1].argv = shlex_split(c.line).argv
            /\ Parsed[l][1].redirect_path = c.redirect_path
            /\ Parsed[l][1].append = c.append
            /\ ok'
            /\ out' = <<>>
            /\ DOMAIN files' = DOMAIN files \cup {T}
            /\ files'[T] = (IF c.append /\ T \in DOMAIN files THEN files[T] ELSE <<>>)
                               \o <<"h","i","\n">>
            /\ \A q \in DOMAIN files \ {T} : files'[q] = files[q]]_vars

\* C24: a line whose "|" and ">" all stand inside a closed quoted argument is
\* one stage without redirection, its argv is the tokens of the whole line
\* with each quoted part one token, and echo of it succeeds, returns the quoted
\* text and changes nothing; a line with a quote that is not closed fails with
\* the parse error.
C24_QuotedOperatorsAreText ==
    [][\A l \in (QuotedOperatorLines \cup QuotedLines) : line' = l =>
        LET lexed == shlex_split(l)
        IN  IF lexed.ok
            THEN /\ stages' = 1
                 /\ Parsed[l][1].argv = lexed.argv
                 /\ Parsed[l][1].redirect_path = <<>>
                 /\ lexed.argv[1] = <<"e","c","h","o">> =>
                       /\ ok'
                       /\ out' = Join(<<" ">>, Tail(lexed.argv)) \o <<"\n">>
                       /\ dirs' = dirs /\ files' = files /\ cwd' = cwd
            ELSE /\ ~ok'
                 /\ out' = <<"P","a","r","s","e"," ","e","r","r","o","r",":"," ","u","n","m","a","t","c","h","e","d"," ","q","u","o","t","e","s">>
                 /\ dirs' = dirs /\ files' = files /\ cwd' = cwd]_vars

\* s is a str: a sequence of characters
IsStr(s) == \A i \in 1..Len(s) : \E k \in 1..Len(CodeOrder) : CodeOrder[k] = s[i]

Commanded == main.pc = "line" /\ main'.pc # "quit"

\* every check of checks holds in the filesystem fs
Holds(fs, checks) ==
    \A k \in 1..Len(checks) :
        LET c == checks[k]
            p == _norm(fs.cwd, c[2])
        IN  CASE c[1] = "cwd==" -> fs.cwd = c[2]
              [] c[1] = "dir_exists" -> p \in DOMAIN fs.dirs
              [] c[1] = "file_exists" -> p \in DOMAIN fs.files
              [] c[1] = "file_contains" -> p \in DOMAIN fs.files /\ Contains(fs.files[p], c[3])
              [] OTHER -> FALSE

\* C26: the hooks around execute and the checks of the objective are
\* read-only: after a line of a mission the directories, the files and cwd are
\* those execute leaves for that line, and an answer to a question changes
\* none of them.
C26_OnlyCommandsChangeTheFilesystem ==
    [][/\ Commanded =>
             \E r \in {run(Fs, Parsed[line'])} :
                 dirs' = r.fs.dirs /\ files' = r.fs.files /\ cwd' = r.fs.cwd
       /\ ~Commanded => (dirs' = dirs /\ files' = files /\ cwd' = cwd)]_vars

\* C27: a mission is reported complete only in a state where all of its
\* success checks hold; after a line that leaves a check unsatisfied it is not
\* complete and an attempt is consumed.
C27_CompleteOnlyWhenChecksHold ==
    [][Commanded =>
        \E held \in {Holds([dirs |-> dirs', files |-> files', cwd |-> cwd'],
                           success_checks(main.mlist[main.i]))} :
            /\ main'.said = "complete" => held
            /\ ~held => /\ main'.said \in {"not complete", "failed"}
                        /\ sim'.score = sim.score
                        /\ main'.said = "not complete" =>
                              main'.attempts_left = main.attempts_left - 1]_vars

\* C28: a full run that is not quit ends after 7 missions with the concept
\* checkpoint run once, and a short run after 5 missions without it; the
\* checkpoint is run right after the 4th mission.
C28_SevenMissionsOneCheckpoint ==
    /\ main.pc = "done" =>
          IF main.short THEN main.completed = 5 /\ main.checkpoints = 0
          ELSE main.completed = 7 /\ main.checkpoints = 1
    /\ main.pc = "checkpoint" => (~main.short /\ main.completed = 4 /\ main.checkpoints = 0)

\* C29: run_mission reads at most 6 lines: it returns at the first line its
\* check of the objective accepts, with 5, 5, 4, 3, 2, 1 points for the 1st to
\* the 6th line, and after the 6th line with no point otherwise; every mission
\* and every checkpoint adds 5 to max_score and from 0 to 5 to score, and
\* 0 <= score <= max_score.
C29_SixLinesAndPoints ==
    [][/\ 0 <= sim.score /\ sim.score <= sim.max_score
       /\ 0 <= sim'.score /\ sim'.score <= sim'.max_score
       /\ sim'.score - sim.score \in 0..5
       /\ sim'.max_score = 5 * (main'.completed + main'.checkpoints
                                  + (IF main'.pc \in {"line", "quit"} THEN 1 ELSE 0))
       /\ Commanded =>
             /\ main.attempts_left \in 1..6
             /\ main'.said = "complete" =>
                   /\ sim'.score = sim.score + <<5, 5, 4, 3, 2, 1>>[7 - main.attempts_left]
                   /\ main'.completed = main.completed + 1
             /\ main'.said = "not complete" =>
                   /\ main.attempts_left > 1
                   /\ main'.attempts_left = main.attempts_left - 1
                   /\ main'.pc = "line" /\ main'.i = main.i
                   /\ sim'.score = sim.score
                   /\ main'.completed = main.completed
             /\ main'.said = "failed" =>
                   /\ main.attempts_left = 1
                   /\ sim'.score = sim.score
                   /\ main'.completed = main.completed + 1]_vars

\* C29 witness: a mission completed at its first line gave 5 points and the
\* next mission failed at its 6th line and gave none.
C29_SixthLine ==
    /\ main.said = "failed"
    /\ main.completed = 2
    /\ sim.score = 5
    /\ sim.max_score >= 10
\* the number of positions of the sequence s that hold t
Occurrences(s, t) == Cardinality({k \in 1..Len(s) : s[k] = t})

\* C30: after shuffle_choices, shuffle_question or shuffle_options the options
\* are a permutation of the original options, the correct index is one of
\* their positions, and the option at it is the option that was at the
\* original correct index.
C30_ShuffleKeepsTheCorrectOption ==
    exam.by # "" =>
        /\ Len(exam.shuffled.options) = Len(exam.q.options)
        /\ \A t \in {"w", "x", "y", "z"} :
              Occurrences(exam.shuffled.options, t) = Occurrences(exam.q.options, t)
        /\ exam.shuffled.correct \in 0..(Len(exam.q.options) - 1)
        /\ exam.shuffled.options[exam.shuffled.correct + 1]
              = exam.q.options[exam.q.correct + 1]

\* C30 witness: shuffle_question moved the correct option, of a question with
\* 4 different options, from the first place to the last
C30_CorrectOptionMoved ==
    /\ exam.by = "shuffle_question"
    /\ exam.q = [options |-> <<"w", "x", "y", "z">>, correct |-> 0]
    /\ exam.shuffled.options = <<"y", "z", "x", "w">>
    /\ exam.shuffled.correct = 3

====
